---- MODULE Spec2Model ----
(***************************************************************************)
(* A model of the asciiflow canvas session: the per-drawing CanvasStore    *)
(* (committed and scratch layers, undo/redo stacks, zoom, offset,          *)
(* selection, localStorage persistence, change notification), the list of  *)
(* drawings and the cache of CanvasStore instances, the coordinate         *)
(* transforms, the text import and export, and the key, clipboard,         *)
(* pointer, wheel and file-panel handlers that drive them, and the older   *)
(* TouchController with its latency timeouts.                              *)
(*                                                                         *)
(* Layer, LayerView, the stringifiers, the constants module and the draw   *)
(* tools are taken from the specification's description of them.  Left     *)
(* out: CanvasStore.recenter, setAltPressed, the keys handleKeyDown passes *)
(* on to the tool, and event.metaKey (the handlers treat it exactly as     *)
(* ctrlKey).  A mouse that hovers or leaves is part of SpecHover only, and *)
(* key events in the middle of a tool's edit of SpecKeys only.  No select  *)
(* gesture is modelled, so selectBox stays null and the cut listener and   *)
(* the paste position take their no-selection branches.                    *)
(*                                                                         *)
(* Numbers are integers.  A zoom is a whole number of 1/ZoomUnit, which    *)
(* every snapped zoom is.  An offset is a whole number of frame pixels:    *)
(* the pixel-format conversions multiply before they divide, which is      *)
(* exact for the offsets given to setOffset directly, by the wheel and by  *)
(* the stored sessions, while an offset set by a drag or a two-finger pan  *)
(* is cut to a whole pixel.  A stored string is its parsed value, or       *)
(* Garbage when no stringifier can parse it.                               *)
(***************************************************************************)
EXTENDS Integers, Sequences, FiniteSets, TLC

VARIABLES
  route,          \* useAppStore state: the current DrawingId
  canvases,       \* the Map of CanvasStore instances, keyed by DrawingId
  localStorage,   \* the persistence medium: key -> stored string
  canvasVersion,  \* useAppStore state: bumped by notifyCanvas
  observed,       \* what a subscriber reads when the last notification fires
  selectBox,      \* store.selectTool.selectBox (the select tool is a singleton)
  selectedToolMode, \* useAppStore state: the tool mode chosen
  lastOp,         \* the operation or handler that ran last
  trail,          \* history variable: committed after each commit, C0..Cn
  cursor,         \* history variable: index into trail of the current layer
  tools,          \* the draw tool singletons: idle, or the cell a gesture began at
  controller,     \* the Controller: mode, dragOrigin, dragOriginCell, lastMoveCell
  inputController, \* the InputController: pointers and the pinch/pan origins
  font,           \* font.ts: the measured character cell
  toolCell,       \* history variable: the last cell handed to a draw tool
  lastEvent,      \* history variable: the last input event handled
  pressed,        \* history variable: the pointers physically held down
  toolCalls,      \* history variable: the calls the last handler made on tools
  localDrawingIds, \* useAppStore state: the list of local drawings
  roundTrip,      \* a text, the layer loaded from it and the text exported
  touchController, \* the TouchController: pressVector, pressTimestamp, ...
  touchWindow     \* the window's pending timeouts, the fingers down, the presses

vars == <<route, canvases, localStorage, canvasVersion, observed, selectBox,
          selectedToolMode, lastOp, trail, cursor, tools, controller,
          inputController, font, toolCell, lastEvent, pressed, toolCalls,
          localDrawingIds, roundTrip, touchController, touchWindow>>

touchVars == <<touchController, touchWindow>>

gestureVars ==
  <<tools, controller, inputController, font, toolCell, lastEvent, pressed,
    toolCalls>>

(***************************************************************************)
(* Bounds of the model.                                                    *)
(***************************************************************************)
MaxStack == 2        \* total length of the undo and redo stacks
MaxVersion == 5      \* canvasVersion, under Spec
MaxWalkVersion == 7  \* canvasVersion, under SpecHistory
MaxAppVersion == 6   \* canvasVersion, under SpecApp
MaxInputVersion == 2 \* canvasVersion, under SpecInput
MaxWheelVersion == 3 \* canvasVersion, under SpecWheel
MaxTextLen == 4      \* characters of a text, under SpecText
MaxDrawings == 2     \* local drawings listed, under SpecDrawings
MaxDrawingsVersion == 1 \* canvasVersion, under SpecDrawings
MaxKeysVersion == 6  \* canvasVersion, under SpecKeys
MaxPresses == 2      \* single-finger presses, under SpecTouch
MaxTouchVersion == 1 \* canvasVersion, under SpecTouch

(***************************************************************************)
(* Program constants.                                                      *)
(***************************************************************************)
STORED_CHAR_PIXELS_H == 9
STORED_CHAR_PIXELS_V == 16
CHAR_PIXELS_H == 9
CHAR_PIXELS_V == 18
MAX_GRID_WIDTH == 2000
MAX_GRID_HEIGHT == 600

\* A zoom factor is a fraction; the model holds it in units of 1/ZoomUnit
\* (zoom 1 is ZoomUnit).  Every zoom snapped to a cell height of 16 or 18
\* pixels is a whole number of units.  Wheel deltas are held in units of
\* 1/ZoomUnit pixel.
ZoomUnit == 144

\* document.documentElement.clientWidth and clientHeight, in pixels.
ClientWidth == 800
ClientHeight == 600

(***************************************************************************)
(* Vectors, boxes, characters.                                             *)
(***************************************************************************)
Vector(x, y) == [x |-> x, y |-> y]

\* The cells the operations of the model write to.
Cells == {Vector(0, 0), Vector(1, 0)}

\* Characters are code points; the glyphs drawn are 'A' and 'B'.
Glyphs == {65, 66}

\* The empty string "", which a delta stores to mark a deletion.
Del == -1

\* JS null and undefined, where they stand for a missing object.
Null == "<null>"
Undefined == "<undefined>"

(***************************************************************************)
(* Layer: a map from cell to character.  DOMAIN l is l.keys().             *)
(***************************************************************************)
EmptyLayer == [k \in {} |-> Del]

Layers == UNION {[S -> Glyphs] : S \in SUBSET Cells}

Deltas == UNION {[S -> Glyphs \cup {Del}] : S \in SUBSET Cells}

Size(l) == Cardinality(DOMAIN l)

Get(l, k) == IF k \in DOMAIN l THEN l[k] ELSE Null

\* apply(delta): [resultLayer, inverseDelta].  Every key of the delta is
\* overwritten in the result (cleared where the delta marks a deletion); the
\* inverse holds, for every key touched, the value held before ("" if absent).
ApplyResult(l, d) ==
  LET cleared == {k \in DOMAIN d : d[k] = Del}
      keys == (DOMAIN l \cup DOMAIN d) \ cleared
  IN [k \in keys |-> IF k \in DOMAIN d THEN d[k] ELSE l[k]]

\* A variant of apply whose inverse omits the keys that were absent.
ApplyNoInverseOfAbsent(l, d) ==
  <<ApplyResult(l, d), [k \in DOMAIN d \cap DOMAIN l |-> l[k]]>>

\* A variant of apply that stores a deletion mark instead of clearing the key.
ApplyStoresDeletionMarks(l, d) ==
  <<[k \in DOMAIN l \cup DOMAIN d |-> IF k \in DOMAIN d THEN d[k] ELSE l[k]],
    [k \in DOMAIN d |-> IF k \in DOMAIN l THEN l[k] ELSE Del]>>

Apply(l, d) ==
  <<ApplyResult(l, d),
    [k \in DOMAIN d |-> IF k \in DOMAIN l THEN l[k] ELSE Del]>>

\* LayerView.get(v): the value of the last layer of the list that defines v,
\* else absent; <<value>> or, when absent, <<>>.
LayerViewGet(layers, v) ==
  LET defining == {n \in DOMAIN layers : v \in DOMAIN layers[n]}
  IN IF defining = {} THEN <<>>
     ELSE <<layers[CHOOSE n \in defining : \A m \in defining : m <= n][v]>>

(***************************************************************************)
(* DrawingId and the localStorage keys of a drawing.                       *)
(***************************************************************************)
DrawingIdLocal(id) == [type |-> "local", localId |-> id, shareSpec |-> Null]

DrawingIdShare(spec) == [type |-> "share", localId |-> Null, shareSpec |-> spec]

\* The two drawings of the model: the default local drawing and a shared one.
LocalRoute == DrawingIdLocal(Null)

ShareRoute == DrawingIdShare("spec")

DrawingIds == {LocalRoute, ShareRoute}

\* encodeURIComponent(null) is "null"; the other names used need no escaping.
EncodeURIComponent(part) == IF part = Null THEN "null" ELSE part

PersistentKey(id) ==
  <<EncodeURIComponent(id.type),
    EncodeURIComponent(IF id.type = "local" THEN id.localId ELSE id.shareSpec)>>

StoragePrefix(id) == <<"drawing", PersistentKey(id)>>

StorageKey(id, key) == Append(StoragePrefix(id), key)

(***************************************************************************)
(* Stringifiers.  A stored string is modelled by its parsed JSON value.    *)
(***************************************************************************)
\* A variant of Layer.serialize that leaves out the cells that mark a
\* deletion.
LayerSerializeDropsDeletions(l) ==
  [version |-> 2,
   cells |-> {<<k.x, k.y, l[k]>> : k \in {c \in DOMAIN l : l[c] # Del}}]

LayerSerialize(l) ==
  [version |-> 2, cells |-> {<<k.x, k.y, l[k]>> : k \in DOMAIN l}]

LayerDeserialize(s) ==
  [k \in {Vector(c[1], c[2]) : c \in s.cells} |->
     (CHOOSE c \in s.cells : Vector(c[1], c[2]) = k)[3]]

LayerArraySerialize(layers) ==
  [array |-> [i \in 1..Len(layers) |-> LayerSerialize(layers[i])]]

LayerArrayDeserialize(s) ==
  [i \in 1..Len(s.array) |-> LayerDeserialize(s.array[i])]

JSONSerialize(value) == [json |-> value]

JSONDeserialize(s) == s.json

\* The layer a share spec decodes to (DrawingStringifier().deserialize).
ShareLayer(spec) == [k \in {Vector(0, 0)} |-> 65]

\* Whether DrawingStringifier().deserialize accepts the share spec: "spec"
\* is a well-formed payload, every other string a truncated one.
ShareSpecDecodes(spec) == spec = "spec"

\* A stored string that is truncated or otherwise not what any stringifier
\* wrote: deserialize throws on it.
Garbage == [garbage |-> TRUE]

Decodes(raw) == "garbage" \notin DOMAIN raw

\* stringifier.deserialize(raw), by the stringifier handed to readPersistent.
Deserialize(stringifier, raw) ==
  CASE stringifier = "Layer" -> LayerDeserialize(raw)
    [] stringifier = "ArrayStringifier(Layer)" -> LayerArrayDeserialize(raw)
    [] OTHER -> JSONDeserialize(raw)

ReadPersistent(ls, key, defaultValue, stringifier) ==
  IF key \notin DOMAIN ls THEN defaultValue
  ELSE IF Decodes(ls[key]) THEN Deserialize(stringifier, ls[key])
  ELSE defaultValue

SetItem(ls, key, value) ==
  [k \in DOMAIN ls \cup {key} |-> IF k = key THEN value ELSE ls[k]]

(***************************************************************************)
(* CanvasStore.  Its operations are state transformers on a world          *)
(*   [c: the CanvasStore's fields, ls: localStorage, v: canvasVersion,     *)
(*    seen: the store and storage as read when notify() last ran].         *)
(***************************************************************************)
NoSelection == <<Undefined>>

NullSelection == <<Null>>

Boxes == {<<"box", Vector(0, 0), Vector(1, 0)>>}

\* A variant of the constructor in which one undecodable key makes every
\* key of the drawing fall back to its default.
CanvasStoreNewAllOrNothing(drawingId, ls) ==
  LET keys == {"committed-layer", "undo-layers", "redo-layers", "zoom",
               "offset"}
      anyBad == \E key \in keys :
                  /\ StorageKey(drawingId, key) \in DOMAIN ls
                  /\ ~Decodes(ls[StorageKey(drawingId, key)])
      Read(key, defaultValue, stringifier) ==
        IF anyBad THEN defaultValue
        ELSE ReadPersistent(ls, StorageKey(drawingId, key), defaultValue,
                            stringifier)
      storedOffset ==
        Read("offset",
             Vector((MAX_GRID_WIDTH * STORED_CHAR_PIXELS_H) \div 2,
                    (MAX_GRID_HEIGHT * STORED_CHAR_PIXELS_V) \div 2),
             "JSONStringifier")
  IN [drawingId |-> drawingId,
      committed |->
        IF drawingId.shareSpec # Null
        THEN ShareLayer(drawingId.shareSpec)
        ELSE Read("committed-layer", EmptyLayer, "Layer"),
      undoLayers |-> Read("undo-layers", <<>>, "ArrayStringifier(Layer)"),
      redoLayers |-> Read("redo-layers", <<>>, "ArrayStringifier(Layer)"),
      zoom |-> Read("zoom", ZoomUnit, "JSONStringifier"),
      offset |->
        Vector((storedOffset.x * CHAR_PIXELS_H) \div STORED_CHAR_PIXELS_H,
               (storedOffset.y * CHAR_PIXELS_V) \div STORED_CHAR_PIXELS_V),
      scratch |-> EmptyLayer,
      selection |-> NoSelection]

CanvasStoreNew(drawingId, ls) ==
  LET defaultOffset ==
        Vector((MAX_GRID_WIDTH * STORED_CHAR_PIXELS_H) \div 2,
               (MAX_GRID_HEIGHT * STORED_CHAR_PIXELS_V) \div 2)
      storedOffset ==
        ReadPersistent(ls, StorageKey(drawingId, "offset"), defaultOffset,
                       "JSONStringifier")
  IN [drawingId |-> drawingId,
      committed |->
        IF drawingId.shareSpec # Null
        THEN ShareLayer(drawingId.shareSpec)
        ELSE ReadPersistent(ls, StorageKey(drawingId, "committed-layer"),
                            EmptyLayer, "Layer"),
      undoLayers |->
        ReadPersistent(ls, StorageKey(drawingId, "undo-layers"), <<>>,
                       "ArrayStringifier(Layer)"),
      redoLayers |->
        ReadPersistent(ls, StorageKey(drawingId, "redo-layers"), <<>>,
                       "ArrayStringifier(Layer)"),
      zoom |-> ReadPersistent(ls, StorageKey(drawingId, "zoom"),
                              ZoomUnit,
                              "JSONStringifier"),
      offset |->
        Vector((storedOffset.x * CHAR_PIXELS_H) \div STORED_CHAR_PIXELS_H,
               (storedOffset.y * CHAR_PIXELS_V) \div STORED_CHAR_PIXELS_V),
      scratch |-> EmptyLayer,
      selection |-> NoSelection]

\* notifyCanvas: bump canvasVersion; subscribers then read the store.
Notify(W) == [W EXCEPT !.v = @ + 1, !.seen = [c |-> W.c, ls |-> W.ls]]

WritePersistent(W, key, value) == [W EXCEPT !.ls = SetItem(@, key, value)]

Key(W, key) == StorageKey(W.c.drawingId, key)

SetZoom(W, value) ==
  LET W1 == [W EXCEPT !.c.zoom = value]
      W2 == WritePersistent(W1, Key(W, "zoom"), JSONSerialize(value))
  IN Notify(W2)

ResetZoom(W) == SetZoom(W, 1 * ZoomUnit)

\* A variant of setOffset that stores the offset in today's pixels.
SetOffsetStoresPixels(W, value) ==
  LET W1 == [W EXCEPT !.c.offset = Vector(value.x, value.y)]
      W2 == WritePersistent(W1, Key(W, "offset"), JSONSerialize(
              Vector(value.x, value.y)))
  IN Notify(W2)

\* A variant of setOffset that notifies before it persists.
SetOffsetNotifiesFirst(W, value) ==
  LET W1 == Notify([W EXCEPT !.c.offset = Vector(value.x, value.y)])
  IN WritePersistent(W1, Key(W, "offset"), JSONSerialize(
       Vector((value.x * STORED_CHAR_PIXELS_H) \div CHAR_PIXELS_H,
              (value.y * STORED_CHAR_PIXELS_V) \div CHAR_PIXELS_V)))

SetOffset(W, value) ==
  LET W1 == [W EXCEPT !.c.offset = Vector(value.x, value.y)]
      W2 == WritePersistent(W1, Key(W, "offset"), JSONSerialize(
              Vector((value.x * STORED_CHAR_PIXELS_H) \div CHAR_PIXELS_H,
                     (value.y * STORED_CHAR_PIXELS_V) \div CHAR_PIXELS_V)))
  IN Notify(W2)

SetCommitted(W, value) ==
  LET W1 == [W EXCEPT !.c.committed = value]
      W2 == WritePersistent(W1, Key(W, "committed-layer"),
                            LayerSerialize(value))
  IN Notify(W2)

SetSelection(W, box) == Notify([W EXCEPT !.c.selection = box])

ClearSelection(W) == SetSelection(W, NullSelection)

SetScratchLayer(W, layer) == Notify([W EXCEPT !.c.scratch = layer])

\* A variant of clear that leaves the redo stack as it is.
ClearKeepsRedo(W) ==
  LET W1 == [W EXCEPT !.c.undoLayers = Append(@, W.c.committed)]
      W2 == WritePersistent(W1, Key(W, "undo-layers"),
                            LayerArraySerialize(W1.c.undoLayers))
      W3 == [W2 EXCEPT !.c.committed = EmptyLayer]
      W4 == WritePersistent(W3, Key(W, "committed-layer"),
                            LayerSerialize(W3.c.committed))
  IN Notify(W4)

\* A variant of clear that empties committed before it pushes it.
ClearPushesEmpty(W) ==
  LET W1 == [W EXCEPT !.c.committed = EmptyLayer]
      W2 == WritePersistent(W1, Key(W, "committed-layer"),
                            LayerSerialize(W1.c.committed))
      W3 == [W2 EXCEPT !.c.undoLayers = Append(@, W1.c.committed)]
      W4 == WritePersistent(W3, Key(W, "undo-layers"),
                            LayerArraySerialize(W3.c.undoLayers))
      W5 == [W4 EXCEPT !.c.redoLayers = <<>>]
      W6 == WritePersistent(W5, Key(W, "redo-layers"),
                            LayerArraySerialize(W5.c.redoLayers))
  IN Notify(W6)

Clear(W) ==
  LET W1 == [W EXCEPT !.c.undoLayers = Append(@, W.c.committed)]
      W2 == WritePersistent(W1, Key(W, "undo-layers"),
                            LayerArraySerialize(W1.c.undoLayers))
      W3 == [W2 EXCEPT !.c.committed = EmptyLayer]
      W4 == WritePersistent(W3, Key(W, "committed-layer"),
                            LayerSerialize(W3.c.committed))
      W5 == [W4 EXCEPT !.c.redoLayers = <<>>]
      W6 == WritePersistent(W5, Key(W, "redo-layers"),
                            LayerArraySerialize(W5.c.redoLayers))
  IN Notify(W6)

\* get combined(): new LayerView([this.committed, this._scratch]).
Combined(c) == <<c.committed, c.scratch>>

ClearScratch(W) == Notify([W EXCEPT !.c.scratch = EmptyLayer])

\* A variant of commitScratch that pushes the inverse delta even when empty.
CommitScratchAlwaysPushes(W) ==
  LET applied == Apply(W.c.committed, W.c.scratch)
      W1 == [W EXCEPT !.c.committed = applied[1]]
      W2 == WritePersistent(W1, Key(W, "committed-layer"),
                            LayerSerialize(W1.c.committed))
      W3 == [W2 EXCEPT !.c.undoLayers = Append(@, applied[2])]
      W4 == WritePersistent(W3, Key(W, "undo-layers"),
                            LayerArraySerialize(W3.c.undoLayers))
      W5 == [W4 EXCEPT !.c.redoLayers = <<>>]
      W6 == WritePersistent(W5, Key(W, "redo-layers"),
                            LayerArraySerialize(W5.c.redoLayers))
  IN Notify([W6 EXCEPT !.c.scratch = EmptyLayer])

CommitScratch(W) ==
  LET applied == Apply(W.c.committed, W.c.scratch)
      newLayer == applied[1]
      undoLayer == applied[2]
      W1 == [W EXCEPT !.c.committed = newLayer]
      W2 == WritePersistent(W1, Key(W, "committed-layer"),
                            LayerSerialize(W1.c.committed))
      W3 == IF Size(undoLayer) > 0
            THEN LET U == [W2 EXCEPT !.c.undoLayers = Append(@, undoLayer)]
                 IN WritePersistent(U, Key(W, "undo-layers"),
                                    LayerArraySerialize(U.c.undoLayers))
            ELSE W2
      W4 == [W3 EXCEPT !.c.redoLayers = <<>>]
      W5 == WritePersistent(W4, Key(W, "redo-layers"),
                            LayerArraySerialize(W4.c.redoLayers))
      W6 == [W5 EXCEPT !.c.scratch = EmptyLayer]
  IN Notify(W6)

\* A variant of undo that pushes the delta it popped, not its inverse.
UndoPushesPopped(W) ==
  IF Len(W.c.undoLayers) = 0 THEN W
  ELSE
    LET popped == W.c.undoLayers[Len(W.c.undoLayers)]
        W1 == [W EXCEPT !.c.committed = Apply(W.c.committed, popped)[1]]
        W2 == WritePersistent(W1, Key(W, "committed-layer"),
                              LayerSerialize(W1.c.committed))
        W3 == [W2 EXCEPT !.c.redoLayers = Append(@, popped)]
        W4 == WritePersistent(W3, Key(W, "redo-layers"),
                              LayerArraySerialize(W3.c.redoLayers))
        W5 == [W4 EXCEPT !.c.undoLayers = SubSeq(@, 1, Len(@) - 1)]
        W6 == WritePersistent(W5, Key(W, "undo-layers"),
                              LayerArraySerialize(W5.c.undoLayers))
    IN Notify(W6)

\* A variant of undo that leaves the entry it applied on the undo stack.
UndoKeepsEntry(W) ==
  IF Len(W.c.undoLayers) = 0 THEN W
  ELSE
    LET applied == Apply(W.c.committed, W.c.undoLayers[Len(W.c.undoLayers)])
        W1 == [W EXCEPT !.c.committed = applied[1]]
        W2 == WritePersistent(W1, Key(W, "committed-layer"),
                              LayerSerialize(W1.c.committed))
        W3 == [W2 EXCEPT !.c.redoLayers = Append(@, applied[2])]
        W4 == WritePersistent(W3, Key(W, "redo-layers"),
                              LayerArraySerialize(W3.c.redoLayers))
    IN Notify(W4)

\* A variant of undo that notifies before it looks at the stack.
UndoNotifiesWhenEmpty(W) ==
  IF Len(W.c.undoLayers) = 0 THEN Notify(W)
  ELSE
    LET applied == Apply(W.c.committed, W.c.undoLayers[Len(W.c.undoLayers)])
        W1 == [W EXCEPT !.c.committed = applied[1]]
        W2 == WritePersistent(W1, Key(W, "committed-layer"),
                              LayerSerialize(W1.c.committed))
        W3 == [W2 EXCEPT !.c.redoLayers = Append(@, applied[2])]
        W4 == WritePersistent(W3, Key(W, "redo-layers"),
                              LayerArraySerialize(W3.c.redoLayers))
        W5 == [W4 EXCEPT !.c.undoLayers = SubSeq(@, 1, Len(@) - 1)]
        W6 == WritePersistent(W5, Key(W, "undo-layers"),
                              LayerArraySerialize(W5.c.undoLayers))
    IN Notify(W6)

Undo(W) ==
  IF Len(W.c.undoLayers) = 0 THEN W
  ELSE
    LET applied == Apply(W.c.committed, W.c.undoLayers[Len(W.c.undoLayers)])
        newLayer == applied[1]
        redoLayer == applied[2]
        W1 == [W EXCEPT !.c.committed = newLayer]
        W2 == WritePersistent(W1, Key(W, "committed-layer"),
                              LayerSerialize(W1.c.committed))
        W3 == [W2 EXCEPT !.c.redoLayers = Append(@, redoLayer)]
        W4 == WritePersistent(W3, Key(W, "redo-layers"),
                              LayerArraySerialize(W3.c.redoLayers))
        W5 == [W4 EXCEPT !.c.undoLayers = SubSeq(@, 1, Len(@) - 1)]
        W6 == WritePersistent(W5, Key(W, "undo-layers"),
                              LayerArraySerialize(W5.c.undoLayers))
    IN Notify(W6)

\* A variant of redo that leaves the entry it applied on the redo stack.
RedoKeepsEntry(W) ==
  IF Len(W.c.redoLayers) = 0 THEN W
  ELSE
    LET applied == Apply(W.c.committed, W.c.redoLayers[Len(W.c.redoLayers)])
        W1 == [W EXCEPT !.c.committed = applied[1]]
        W2 == WritePersistent(W1, Key(W, "committed-layer"),
                              LayerSerialize(W1.c.committed))
        W3 == [W2 EXCEPT !.c.undoLayers = Append(@, applied[2])]
        W4 == WritePersistent(W3, Key(W, "undo-layers"),
                              LayerArraySerialize(W3.c.undoLayers))
    IN Notify(W4)

\* A variant of redo that does not persist the undo stack it pushed onto.
RedoSkipsUndoWrite(W) ==
  IF Len(W.c.redoLayers) = 0 THEN W
  ELSE
    LET applied == Apply(W.c.committed, W.c.redoLayers[Len(W.c.redoLayers)])
        W1 == [W EXCEPT !.c.committed = applied[1]]
        W2 == WritePersistent(W1, Key(W, "committed-layer"),
                              LayerSerialize(W1.c.committed))
        W3 == [W2 EXCEPT !.c.undoLayers = Append(@, applied[2])]
        W5 == [W3 EXCEPT !.c.redoLayers = SubSeq(@, 1, Len(@) - 1)]
        W6 == WritePersistent(W5, Key(W, "redo-layers"),
                              LayerArraySerialize(W5.c.redoLayers))
    IN Notify(W6)

Redo(W) ==
  IF Len(W.c.redoLayers) = 0 THEN W
  ELSE
    LET applied == Apply(W.c.committed, W.c.redoLayers[Len(W.c.redoLayers)])
        newLayer == applied[1]
        undoLayer == applied[2]
        W1 == [W EXCEPT !.c.committed = newLayer]
        W2 == WritePersistent(W1, Key(W, "committed-layer"),
                              LayerSerialize(W1.c.committed))
        W3 == [W2 EXCEPT !.c.undoLayers = Append(@, undoLayer)]
        W4 == WritePersistent(W3, Key(W, "undo-layers"),
                              LayerArraySerialize(W3.c.undoLayers))
        W5 == [W4 EXCEPT !.c.redoLayers = SubSeq(@, 1, Len(@) - 1)]
        W6 == WritePersistent(W5, Key(W, "redo-layers"),
                              LayerArraySerialize(W5.c.redoLayers))
    IN Notify(W6)

(***************************************************************************)
(* The store facade: store.currentCanvas is getCanvas(route), which        *)
(* constructs the CanvasStore on first access.                             *)
(***************************************************************************)
GetCanvas(drawingId) ==
  IF drawingId \in DOMAIN canvases
  THEN canvases[drawingId]
  ELSE CanvasStoreNew(drawingId, localStorage)

CurrentCanvas == GetCanvas(route)

World ==
  [c |-> CurrentCanvas, ls |-> localStorage, v |-> canvasVersion,
   seen |-> observed]

\* The state after an operation on store.currentCanvas that ends in world W.
Install(W, op) ==
  /\ canvases' = [k \in DOMAIN canvases \cup {route} |->
                    IF k = route THEN W.c ELSE canvases[k]]
  /\ localStorage' = W.ls
  /\ canvasVersion' = W.v
  /\ observed' = W.seen
  /\ lastOp' = op

\* Inputs of the operations.
Zooms == {1 * ZoomUnit, 2 * ZoomUnit}

CommittedInputs == {EmptyLayer, ShareLayer("spec")}

Offsets == {Vector(0, 0), Vector(CHAR_PIXELS_H, CHAR_PIXELS_V)}

CanNotify(n) == canvasVersion + n <= MaxVersion

CanNotifyWalk(n) == canvasVersion + n <= MaxWalkVersion

CanNotifyApp(n) == canvasVersion + n <= MaxAppVersion

CanPush ==
  Len(CurrentCanvas.undoLayers) + Len(CurrentCanvas.redoLayers) < MaxStack

\* The draw tool singletons of the store (the null tool has no state).
DrawTools ==
  {"boxTool", "lineTool", "arrowTool", "freeformTool", "textTool",
   "selectTool"}

\* A tool that is idle; a tool in a gesture holds <<the cell it began at>>.
Idle == <<>>

\* The cell heights font measurement can give: today's default and the one
\* of the stored pixel format.
MeasuredHeights == {STORED_CHAR_PIXELS_V, CHAR_PIXELS_V}

\* The state after construction, over the storage ls an earlier session
\* left.
InitStore(ls) ==
  /\ route = LocalRoute
  /\ canvases = [k \in {} |-> Null]
  /\ localStorage = ls
  /\ canvasVersion = 0
  /\ observed = [c |-> CanvasStoreNew(LocalRoute, ls), ls |-> ls]
  /\ selectBox = NullSelection
  /\ selectedToolMode = "BOX"
  /\ lastOp = "init"
  /\ trail = <<[op |-> "init", before |-> EmptyLayer, layer |-> EmptyLayer]>>
  /\ cursor = 1
  /\ tools = [t \in DrawTools |-> Idle]
  /\ controller = [mode |-> "NONE", dragOrigin |-> <<>>,
                   dragOriginCell |-> <<>>, lastMoveCell |-> <<>>]
  /\ inputController = [pointers |-> <<>>, pinchStartLength |-> 0,
                        pinchStartZoom |-> 0, panOrigin |-> <<>>,
                        panOriginOffset |-> <<>>]
  /\ toolCell = <<>>
  /\ lastEvent = <<>>
  /\ pressed = {}
  /\ toolCalls = [delivered |-> <<>>, moveCell |-> <<>>, calls |-> <<>>]
  /\ localDrawingIds =
       ReadPersistent(ls, <<"localDrawingIds">>, <<>>,
                      "ArrayStringifier(DrawingId)")

\* The state before font measurement has changed the defaults.
\* The TouchController after construction, no timeout pending and no finger
\* on the screen.
InitTouch ==
  /\ touchController = [pressVector |-> <<>>, pressTimestamp |-> 0,
                        dragStarted |-> FALSE, zoomStarted |-> FALSE,
                        originalZoom |-> 0, zoomLength |-> 0]
  /\ touchWindow = [timers |-> <<>>, touches |-> 0, presses |-> <<>>]

Init ==
  /\ InitStore([k \in {} |-> Null])
  /\ font = [CHAR_PIXELS_H |-> CHAR_PIXELS_H, CHAR_PIXELS_V |-> CHAR_PIXELS_V]
  /\ roundTrip = <<>>
  /\ InitTouch

(***************************************************************************)
(* Calls of the CanvasStore operations on store.currentCanvas.             *)
(***************************************************************************)
CallSetZoom ==
  /\ CanNotify(1)
  /\ \E value \in Zooms : Install(SetZoom(World, value), "setZoom")
  /\ UNCHANGED <<gestureVars, roundTrip, touchVars, localDrawingIds, route, selectBox, selectedToolMode,
                 trail, cursor>>

CallResetZoom ==
  /\ CanNotify(1)
  /\ Install(ResetZoom(World), "resetZoom")
  /\ UNCHANGED <<gestureVars, roundTrip, touchVars, localDrawingIds, route, selectBox, selectedToolMode,
                 trail, cursor>>

CallSetOffset ==
  /\ CanNotify(1)
  /\ \E value \in Offsets : Install(SetOffset(World, value), "setOffset")
  /\ UNCHANGED <<gestureVars, roundTrip, touchVars, localDrawingIds, route, selectBox, selectedToolMode,
                 trail, cursor>>

CallSetCommitted ==
  /\ CanNotify(1)
  /\ \E value \in CommittedInputs :
       Install(SetCommitted(World, value), "setCommitted")
  /\ UNCHANGED <<gestureVars, roundTrip, touchVars, localDrawingIds, route, selectBox, selectedToolMode,
                 trail, cursor>>

CallSetSelection ==
  /\ CanNotify(1)
  /\ \E box \in Boxes : Install(SetSelection(World, box), "setSelection")
  /\ UNCHANGED <<gestureVars, roundTrip, touchVars, localDrawingIds, route, selectBox, selectedToolMode,
                 trail, cursor>>

CallClearSelection ==
  /\ CanNotify(1)
  /\ Install(ClearSelection(World), "clearSelection")
  /\ UNCHANGED <<gestureVars, roundTrip, touchVars, localDrawingIds, route, selectBox, selectedToolMode,
                 trail, cursor>>

CallSetScratchLayer ==
  /\ CanNotify(1)
  /\ \E layer \in Deltas :
       Install(SetScratchLayer(World, layer), "setScratchLayer")
  /\ UNCHANGED <<gestureVars, roundTrip, touchVars, localDrawingIds, route, selectBox, selectedToolMode,
                 trail, cursor>>

CallClear ==
  /\ CanNotify(1)
  /\ CanPush
  /\ Install(Clear(World), "clear")
  /\ UNCHANGED <<gestureVars, roundTrip, touchVars, localDrawingIds, route, selectBox, selectedToolMode,
                 trail, cursor>>

CallClearScratch ==
  /\ CanNotify(1)
  /\ Install(ClearScratch(World), "clearScratch")
  /\ UNCHANGED <<gestureVars, roundTrip, touchVars, localDrawingIds, route, selectBox, selectedToolMode,
                 trail, cursor>>

CallCommitScratch ==
  /\ CanNotify(1)
  /\ CanPush
  /\ Install(CommitScratch(World), "commitScratch")
  /\ UNCHANGED <<gestureVars, roundTrip, touchVars, localDrawingIds, route, selectBox, selectedToolMode,
                 trail, cursor>>

CallUndo ==
  /\ CanNotify(1)
  /\ Install(Undo(World), "undo")
  /\ UNCHANGED <<gestureVars, roundTrip, touchVars, localDrawingIds, route, selectBox, selectedToolMode,
                 trail, cursor>>

CallRedo ==
  /\ CanNotify(1)
  /\ Install(Redo(World), "redo")
  /\ UNCHANGED <<gestureVars, roundTrip, touchVars, localDrawingIds, route, selectBox, selectedToolMode,
                 trail, cursor>>

Next ==
  \/ CallSetZoom
  \/ CallResetZoom
  \/ CallSetOffset
  \/ CallSetCommitted
  \/ CallSetSelection
  \/ CallClearSelection
  \/ CallSetScratchLayer
  \/ CallClear
  \/ CallClearScratch
  \/ CallCommitScratch
  \/ CallUndo
  \/ CallRedo

Spec == Init /\ [][Next]_vars

(***************************************************************************)
(* The commit history, recorded: trail holds the committed layer after     *)
(* each clear() and each commitScratch() of a non-empty scratch (and the   *)
(* layer before it), cursor the entry undo() and redo() have walked to.    *)
(***************************************************************************)
TrailPush(op, layer) ==
  /\ trail' = Append(SubSeq(trail, 1, cursor),
                     [op |-> op, before |-> CurrentCanvas.committed,
                      layer |-> layer])
  /\ cursor' = cursor + 1

WalkSetScratchLayer ==
  /\ CanNotifyWalk(1)
  /\ \E layer \in Deltas :
       Install(SetScratchLayer(World, layer), "setScratchLayer")
  /\ UNCHANGED <<gestureVars, roundTrip, touchVars, localDrawingIds, route, selectBox, selectedToolMode,
                 trail, cursor>>

WalkCommitScratch ==
  /\ CanNotifyWalk(1)
  /\ CanPush
  /\ Install(CommitScratch(World), "commitScratch")
  /\ IF Size(CurrentCanvas.scratch) > 0
     THEN TrailPush("commitScratch", CommitScratch(World).c.committed)
     ELSE trail' = SubSeq(trail, 1, cursor) /\ cursor' = cursor
  /\ UNCHANGED <<gestureVars, roundTrip, touchVars, localDrawingIds, route, selectBox, selectedToolMode>>

WalkClear ==
  /\ CanNotifyWalk(1)
  /\ CanPush
  /\ Install(Clear(World), "clear")
  /\ TrailPush("clear", Clear(World).c.committed)
  /\ UNCHANGED <<gestureVars, roundTrip, touchVars, localDrawingIds, route, selectBox, selectedToolMode>>

WalkUndo ==
  /\ CanNotifyWalk(1)
  /\ Install(Undo(World), "undo")
  /\ cursor' = IF cursor > 1 THEN cursor - 1 ELSE cursor
  /\ UNCHANGED <<gestureVars, roundTrip, touchVars, localDrawingIds, route, selectBox, selectedToolMode, trail>>

WalkRedo ==
  /\ CanNotifyWalk(1)
  /\ Install(Redo(World), "redo")
  /\ cursor' = IF cursor < Len(trail) THEN cursor + 1 ELSE cursor
  /\ UNCHANGED <<gestureVars, roundTrip, touchVars, localDrawingIds, route, selectBox, selectedToolMode, trail>>

NextHistory ==
  \/ WalkSetScratchLayer
  \/ WalkCommitScratch
  \/ WalkClear
  \/ WalkUndo
  \/ WalkRedo

SpecHistory == Init /\ [][NextHistory]_vars

(***************************************************************************)
(* textToLayer: loads text (a sequence of code points) into a layer.       *)
(***************************************************************************)
RECURSIVE NormaliseLineEndings(_)
\* value.replace(/\r\n?/g, "\n")
NormaliseLineEndings(value) ==
  IF value = <<>> THEN <<>>
  ELSE IF Head(value) = 13
       THEN <<10>> \o NormaliseLineEndings(
              IF Len(value) > 1 /\ value[2] = 10
              THEN Tail(Tail(value)) ELSE Tail(value))
       ELSE <<Head(value)>> \o NormaliseLineEndings(Tail(value))

\* A variant of textToLayer that stores the spaces too.
TextToLayerStoresSpaces(value, offset) ==
  LET text == NormaliseLineEndings(value)
      breaks(n) == {m \in 1..(n - 1) : text[m] = 10}
      j(n) == Cardinality(breaks(n))
      lineStart(n) ==
        IF breaks(n) = {} THEN 0
        ELSE CHOOSE m \in breaks(n) : \A o \in breaks(n) : o <= m
      i(n) == n - 1 - lineStart(n)
      at(n) == Vector(i(n) + offset.x, j(n) + offset.y)
      stored == {n \in 1..Len(text) :
                   text[n] # 10 /\ text[n] >= 32 /\ text[n] # 127}
  IN [k \in {at(n) : n \in stored} |->
        text[CHOOSE n \in stored : at(n) = k]]

TextToLayer(value, offset) ==
  LET text == NormaliseLineEndings(value)
      breaks(n) == {m \in 1..(n - 1) : text[m] = 10}
      j(n) == Cardinality(breaks(n))
      lineStart(n) ==
        IF breaks(n) = {} THEN 0
        ELSE CHOOSE m \in breaks(n) : \A o \in breaks(n) : o <= m
      i(n) == n - 1 - lineStart(n)
      at(n) == Vector(i(n) + offset.x, j(n) + offset.y)
      stored == {n \in 1..Len(text) :
                   text[n] # 10 /\ text[n] # 32 /\ text[n] >= 32
                   /\ text[n] # 127}
  IN [k \in {at(n) : n \in stored} |->
        text[CHOOSE n \in stored : at(n) = k]]

(***************************************************************************)
(* Tools.  store.currentTool is the null tool on a shared route.           *)
(***************************************************************************)
ToolModes == {"BOX", "LINES", "ARROWS", "FREEFORM", "TEXT", "SELECT"}

\* A variant of toolMode that does not look at the route.
ToolModeIgnoresRoute == selectedToolMode

ToolMode == IF route.shareSpec # Null THEN Undefined ELSE selectedToolMode

CurrentTool ==
  CASE ToolMode = "BOX" -> "boxTool"
    [] ToolMode = "LINES" -> "lineTool"
    [] ToolMode = "ARROWS" -> "arrowTool"
    [] ToolMode = "FREEFORM" -> "freeformTool"
    [] ToolMode = "TEXT" -> "textTool"
    [] ToolMode = "SELECT" -> "selectTool"
    [] OTHER -> "nullTool"

\* The store, its current canvas and the controllers, as a handler sees
\* and changes them.  toolCell starts empty: it records the cell this
\* handler hands to a tool.  calls records the calls this handler makes on
\* the draw tools, moveCell the cell handleMove computes, and delivered the
\* cell last passed to start() or move() in the gesture in progress.
Session ==
  [c |-> CurrentCanvas, ls |-> localStorage, v |-> canvasVersion,
   seen |-> observed, selectedToolMode |-> selectedToolMode, tools |-> tools,
   controller |-> controller, inputController |-> inputController,
   toolCell |-> <<>>, calls |-> <<>>, moveCell |-> <<>>,
   delivered |-> toolCalls.delivered]

\* The session after a call of op on a draw tool.
Called(W, op, tool, cell) ==
  [W EXCEPT !.calls = Append(@, [op |-> op, tool |-> tool, cell |-> cell]),
            !.delivered = cell]

\* The state after a handler that ends in session W.
InstallSession(W, op) ==
  /\ Install(W, op)
  /\ selectedToolMode' = W.selectedToolMode
  /\ tools' = W.tools
  /\ controller' = W.controller
  /\ inputController' = W.inputController
  /\ toolCell' = W.toolCell
  /\ toolCalls' = [delivered |-> W.delivered, moveCell |-> W.moveCell,
                   calls |-> W.calls]

\* cleanup(): forces the tool idle and discards the uncommitted scratch;
\* inert for the null tool.
ToolCleanup(tool, W) ==
  IF tool = "nullTool" THEN W
  ELSE ClearScratch([Called(W, "cleanup", tool, <<>>) EXCEPT
                       !.tools[tool] = Idle])

\* A variant of setToolMode that cleans up whatever the mode asked for.
SetToolModeAlwaysCleansUp(W, toolMode) ==
  [ToolCleanup(CurrentTool, W) EXCEPT !.selectedToolMode = toolMode]

SetToolMode(W, toolMode) ==
  IF W.selectedToolMode # toolMode
  THEN [ToolCleanup(CurrentTool, W) EXCEPT !.selectedToolMode = toolMode]
  ELSE W

BoxTopLeft(box) == box[2]

BoxCells(box) ==
  {k \in Cells : /\ box[2].x <= k.x /\ k.x <= box[3].x
                 /\ box[2].y <= k.y /\ k.y <= box[3].y}

\* selectTool.cutSelection(): erases the selection from committed by applying
\* a delete-diff.
CutSelection(W) ==
  LET W1 == SetScratchLayer(W, [k \in BoxCells(selectBox) |-> Del])
  IN CommitScratch(W1)

(***************************************************************************)
(* Input handlers: the route effect of App, Controller.handleKeyDown, and  *)
(* the cut and paste listeners.                                            *)
(***************************************************************************)
\* The keys handleKeyDown acts on itself: Alt+1..6, Ctrl+Z, Ctrl+Y.
KeyEvents ==
  [altKey : BOOLEAN, ctrlKey : BOOLEAN, shiftKey : BOOLEAN,
   keyCode : (49..54) \cup {89, 90}]

\* The tool mode Alt+digit selects.
AltDigitMode(keyCode) ==
  CASE keyCode = 49 -> "BOX"
    [] keyCode = 50 -> "SELECT"
    [] keyCode = 51 -> "FREEFORM"
    [] keyCode = 52 -> "ARROWS"
    [] keyCode = 53 -> "LINES"
    [] keyCode = 54 -> "TEXT"

ClipboardTexts == {<<65>>, <<32, 66>>}

\* A variant of handleKeyDown whose Ctrl+Z undoes whatever the scratch holds.
KeyDownAlwaysUndoes(W, event) ==
  LET W0 ==
        IF event.altKey /\ event.keyCode \in 49..54
        THEN SetToolMode(W, AltDigitMode(event.keyCode))
        ELSE W
      W1 ==
        IF event.ctrlKey /\ event.keyCode = 90
        THEN IF event.shiftKey THEN Redo(W0) ELSE Undo(W0)
        ELSE W0
  IN IF event.ctrlKey /\ event.keyCode = 89 THEN Redo(W1) ELSE W1

KeyDown(W, event) ==
  LET W0 ==
        IF event.altKey /\ event.keyCode \in 49..54
        THEN SetToolMode(W, AltDigitMode(event.keyCode))
        ELSE W
      W1 ==
        IF event.ctrlKey /\ event.keyCode = 90
        THEN IF event.shiftKey
             THEN Redo(W0)
             ELSE IF Size(W0.c.scratch) > 0
                  THEN ClearSelection(ClearScratch(ToolCleanup(CurrentTool, W0)))
                  ELSE Undo(W0)
        ELSE W0
  IN IF event.ctrlKey /\ event.keyCode = 89 THEN Redo(W1) ELSE W1

Paste(W, clipboardText, centre) ==
  LET position ==
        IF selectBox # NullSelection THEN BoxTopLeft(selectBox) ELSE centre
      pastedLayer == TextToLayer(clipboardText, position)
      W1 == ToolCleanup(CurrentTool, W)
      W2 == SetScratchLayer(W1, pastedLayer)
  IN CommitScratch(W2)

Cut(W) == IF selectBox # NullSelection THEN CutSelection(W) ELSE W

SetRoute ==
  /\ \E value \in DrawingIds : route' = value
  /\ lastOp' = "setRoute"
  /\ UNCHANGED <<gestureVars, roundTrip, touchVars, localDrawingIds, canvases, localStorage,
                 canvasVersion, observed, selectBox, selectedToolMode, trail,
                 cursor>>

HandleKeyDown ==
  /\ CanNotifyApp(3)
  /\ \E e \in KeyEvents :
       InstallSession(KeyDown(Session, e), "keydown")
  /\ UNCHANGED <<route, selectBox, trail, cursor, font, lastEvent, pressed,
               roundTrip, touchVars, localDrawingIds>>

HandleCut ==
  /\ CanNotifyApp(2)
  /\ CanPush
  /\ InstallSession(Cut(Session), "cut")
  /\ UNCHANGED <<route, selectBox, trail, cursor, font, lastEvent, pressed,
               roundTrip, touchVars, localDrawingIds>>

HandlePaste ==
  /\ CanNotifyApp(3)
  /\ CanPush
  /\ \E clipboardText \in ClipboardTexts, centre \in Cells :
       InstallSession(Paste(Session, clipboardText, centre), "paste")
  /\ UNCHANGED <<route, selectBox, trail, cursor, font, lastEvent, pressed,
               roundTrip, touchVars, localDrawingIds>>

NextApp ==
  \/ SetRoute
  \/ HandleKeyDown
  \/ HandleCut
  \/ HandlePaste

SpecApp == Init /\ [][NextApp]_vars

(***************************************************************************)
(* The coordinate transforms and the zoom arithmetic.  A screen or frame   *)
(* position is a Vector with a denominator d, standing for (x/d, y/d) in   *)
(* pixels, and an unsnapped zoom is a fraction n/d of units, so that       *)
(* every division below is exact.                                          *)
(***************************************************************************)
Scaled(x, y, d) == [x |-> x, y |-> y, d |-> d]

\* Math.round(a / b) for b > 0: halves go up.
Round(a, b) == (a \div b) + (IF 2 * (a % b) >= b THEN 1 ELSE 0)

ScreenToFrame(W, vector) ==
  LET zoom == W.c.zoom
      offset == W.c.offset
  IN Scaled(
       (vector.x - (ClientWidth \div 2) * vector.d) * ZoomUnit
         + offset.x * zoom * vector.d,
       (vector.y - (ClientHeight \div 2) * vector.d) * ZoomUnit
         + offset.y * zoom * vector.d,
       zoom * vector.d)

FrameToScreen(W, vector) ==
  LET zoom == W.c.zoom
      offset == W.c.offset
  IN Scaled(
       (vector.x - offset.x * vector.d) * zoom
         + (ClientWidth \div 2) * ZoomUnit * vector.d,
       (vector.y - offset.y * vector.d) * zoom
         + (ClientHeight \div 2) * ZoomUnit * vector.d,
       ZoomUnit * vector.d)

Min(a, b) == IF a < b THEN a ELSE b

Max(a, b) == IF a > b THEN a ELSE b

\* A variant of frameToCell without the lower clamp.
FrameToCellNoLowerClamp(vector) ==
  Vector(
    Min(Round(2 * vector.x - CHAR_PIXELS_H * vector.d,
              2 * CHAR_PIXELS_H * vector.d),
        MAX_GRID_WIDTH - 2),
    Min(Round(2 * vector.y + CHAR_PIXELS_V * vector.d,
              2 * CHAR_PIXELS_V * vector.d),
        MAX_GRID_HEIGHT - 2))

FrameToCell(vector) ==
  Vector(
    Min(Max(1, Round(2 * vector.x - CHAR_PIXELS_H * vector.d,
                     2 * CHAR_PIXELS_H * vector.d)),
        MAX_GRID_WIDTH - 2),
    Min(Max(1, Round(2 * vector.y + CHAR_PIXELS_V * vector.d,
                     2 * CHAR_PIXELS_V * vector.d)),
        MAX_GRID_HEIGHT - 2))

CellToFrame(vector) ==
  Scaled(Round(vector.x * CHAR_PIXELS_H, 1),
         Round(vector.y * CHAR_PIXELS_V, 1), 1)

ScreenToCell(W, vector) == FrameToCell(ScreenToFrame(W, vector))

CellToScreen(W, vector) == FrameToScreen(W, CellToFrame(vector))

\* Math.max(Math.min(zoom, 5), 0.2) of the zoom n/d, d > 0.
ClampZoom(zoom) ==
  IF zoom.n > 5 * ZoomUnit * zoom.d THEN [n |-> 5 * ZoomUnit, d |-> 1]
  ELSE IF 5 * zoom.n < ZoomUnit * zoom.d THEN [n |-> ZoomUnit, d |-> 5]
  ELSE zoom

\* A variant of snapZoom that keeps its argument, cut to a whole unit.
SnapZoomNoSnap(zoom) == zoom.n \div zoom.d

\* snapZoom of the zoom n/d: the result is k / CHAR_PIXELS_V for an integer
\* k, which is a whole number of units for every measured height modelled.
SnapZoom(zoom) ==
  Round(zoom.n * font.CHAR_PIXELS_V, zoom.d * ZoomUnit)
    * (ZoomUnit \div font.CHAR_PIXELS_V)

(***************************************************************************)
(* The draw tools, as the controller drives them.  A tool is Active from   *)
(* start() to end() or cleanup(); the box, line, arrow and freeform tools  *)
(* rewrite the scratch layer on move() and commit it on end().  The glyphs *)
(* they draw, and what the text and select tools do between start() and    *)
(* end(), are left out.                                                    *)
(***************************************************************************)
ShapeTools == {"boxTool", "lineTool", "arrowTool", "freeformTool"}

ToolStart(tool, W, cell) ==
  IF tool = "nullTool" THEN W
  ELSE [Called(W, "start", tool, <<cell>>) EXCEPT !.tools[tool] = <<cell>>]

ToolMove(tool, W, cell) ==
  IF tool = "nullTool" THEN W
  ELSE IF tool \in ShapeTools /\ W.tools[tool] # Idle
  THEN SetScratchLayer(Called(W, "move", tool, <<cell>>),
                       [k \in {W.tools[tool][1], cell} |-> 65])
  ELSE Called(W, "move", tool, <<cell>>)

ToolEnd(tool, W) ==
  IF tool \in ShapeTools
  THEN CommitScratch([Called(W, "end", tool, <<>>) EXCEPT
                        !.tools[tool] = Idle])
  ELSE IF tool = "nullTool" THEN W
  ELSE [Called(W, "end", tool, <<>>) EXCEPT !.tools[tool] = Idle]

(***************************************************************************)
(* Controller and InputController.  Pointer positions are whole pixels.    *)
(***************************************************************************)
StartDraw(W, position) ==
  LET W1 == [W EXCEPT !.controller.mode = "DRAW"]
      cell == ScreenToCell(W1, position)
  IN ToolStart(CurrentTool, [W1 EXCEPT !.toolCell = <<cell>>], cell)

StartDrag(W, position) ==
  [W EXCEPT !.controller.mode = "DRAG",
            !.controller.dragOrigin = <<position>>,
            !.controller.dragOriginCell = <<W.c.offset>>]

EndAll(W) ==
  LET W1 == IF W.controller.mode = "DRAW" THEN ToolEnd(CurrentTool, W) ELSE W
  IN [W1 EXCEPT !.controller =
        [mode |-> "NONE", dragOrigin |-> <<>>, dragOriginCell |-> <<>>,
         lastMoveCell |-> <<>>]]

\* Vector.scale(1 / zoom) of a difference of whole-pixel positions, cut to
\* whole frame pixels.
ScaleByZoom(W, pixels) == (pixels * ZoomUnit) \div W.c.zoom

HandleMove(W, position) ==
  LET moveCell == ScreenToCell(W, position)
      lastMoveCell ==
        IF W.controller.lastMoveCell = <<>> THEN moveCell
        ELSE W.controller.lastMoveCell[1]
      moved == moveCell # lastMoveCell
      W1 == IF moved THEN [W EXCEPT !.toolCell = <<moveCell>>] ELSE W
      W2 == IF W.controller.mode = "DRAW" /\ moved
            THEN ToolMove(CurrentTool, W1, moveCell)
            ELSE W1
      W3 == IF W.controller.mode = "DRAG" /\ moved
            THEN SetOffset(W2,
                   Vector(W.controller.dragOriginCell[1].x
                            + ScaleByZoom(W2,
                                W.controller.dragOrigin[1].x - position.x),
                          W.controller.dragOriginCell[1].y
                            + ScaleByZoom(W2,
                                W.controller.dragOrigin[1].y - position.y)))
            ELSE W2
  IN [W3 EXCEPT !.controller.lastMoveCell = <<moveCell>>,
                !.moveCell = <<moveCell>>]

\* Map.set on the pointers map.
SetPointer(pointers, pointerId, pos) ==
  [k \in DOMAIN pointers \cup {pointerId} |->
     IF k = pointerId THEN pos ELSE pointers[k]]

DeletePointer(pointers, pointerId) ==
  [k \in DOMAIN pointers \ {pointerId} |-> pointers[k]]

\* The first two values of the pointers map.  Only their distance and their
\* midpoint are used, so their order does not matter.
FirstTwo(pointers) ==
  LET a == CHOOSE k \in DOMAIN pointers : \A o \in DOMAIN pointers : k <= o
      b == CHOOSE k \in DOMAIN pointers \ {a} :
             \A o \in DOMAIN pointers \ {a} : k <= o
  IN <<pointers[a], pointers[b]>>

Abs(n) == IF n < 0 THEN -n ELSE n

\* Vector.length() of a vector along one axis.
Length(vector) == Abs(vector.x) + Abs(vector.y)

\* The midpoint of two positions whose coordinates have an even sum.
Midpoint(a, b) == Scaled((a.x + b.x) \div 2, (a.y + b.y) \div 2, 1)

ResetMultiTouch(W) ==
  [W EXCEPT !.inputController.pinchStartLength = 0,
            !.inputController.pinchStartZoom = 0,
            !.inputController.panOrigin = <<>>,
            !.inputController.panOriginOffset = <<>>]

PointerDown(W, e) ==
  LET pos == Scaled(e.x, e.y, 1)
      W1 == [W EXCEPT !.inputController.pointers =
                        SetPointer(@, e.pointerId, pos)]
      size == Cardinality(DOMAIN W1.inputController.pointers)
  IN IF size = 2
     THEN LET W2 == EndAll(W1)
              ab == FirstTwo(W2.inputController.pointers)
          IN [W2 EXCEPT
                !.inputController.pinchStartLength =
                  Length(Scaled(ab[1].x - ab[2].x, ab[1].y - ab[2].y, 1)),
                !.inputController.pinchStartZoom = W2.c.zoom,
                !.inputController.panOrigin = <<Midpoint(ab[1], ab[2])>>,
                !.inputController.panOriginOffset = <<W2.c.offset>>]
     ELSE IF size = 1
     THEN IF e.button = 1 THEN StartDrag(W1, pos) ELSE StartDraw(W1, pos)
     ELSE W1

PinchZoom(W, currentLength) ==
  SetZoom(W, SnapZoom(ClampZoom(
    [n |-> W.inputController.pinchStartZoom * currentLength,
     d |-> W.inputController.pinchStartLength])))

PointerMove(W, e) ==
  LET pos == Scaled(e.x, e.y, 1)
      W1 == [W EXCEPT !.inputController.pointers =
                        SetPointer(@, e.pointerId, pos)]
      size == Cardinality(DOMAIN W1.inputController.pointers)
  IN IF size >= 2
     THEN LET ab == FirstTwo(W1.inputController.pointers)
              currentLength ==
                Length(Scaled(ab[1].x - ab[2].x, ab[1].y - ab[2].y, 1))
              W2 == IF W1.inputController.pinchStartLength > 0
                    THEN PinchZoom(W1, currentLength)
                    ELSE W1
              midpoint == Midpoint(ab[1], ab[2])
          IN IF W2.inputController.panOrigin # <<>>
             THEN SetOffset(W2,
                    Vector(W2.inputController.panOriginOffset[1].x
                             + ScaleByZoom(W2,
                                 W2.inputController.panOrigin[1].x
                                   - midpoint.x),
                           W2.inputController.panOriginOffset[1].y
                             + ScaleByZoom(W2,
                                 W2.inputController.panOrigin[1].y
                                   - midpoint.y)))
             ELSE W2
     ELSE HandleMove(W1, pos)

\* A variant of handlePointerUp that starts a draw with the pointer left
\* over from a pinch.
PointerUpRestartsDraw(W, e) ==
  LET W1 == [W EXCEPT !.inputController.pointers =
                        DeletePointer(@, e.pointerId)]
      size == Cardinality(DOMAIN W1.inputController.pointers)
  IN IF size = 0 THEN ResetMultiTouch(EndAll(W1))
     ELSE IF size = 1
     THEN StartDraw(ResetMultiTouch(W1),
                    W1.inputController.pointers[
                      CHOOSE k \in DOMAIN W1.inputController.pointers : TRUE])
     ELSE W1

PointerUp(W, e) ==
  LET W1 == [W EXCEPT !.inputController.pointers =
                        DeletePointer(@, e.pointerId)]
      size == Cardinality(DOMAIN W1.inputController.pointers)
  IN IF size = 0 THEN ResetMultiTouch(EndAll(W1))
     ELSE IF size = 1 THEN ResetMultiTouch(W1)
     ELSE W1

WheelZoom(W, rawDelta) ==
  SetZoom(W, SnapZoom(ClampZoom(
    [n |-> W.c.zoom * (IF -rawDelta > 0 THEN 11 ELSE 9), d |-> 10])))

\* A variant of the pan branch that ignores the Shift key.
WheelPanIgnoresShift(W, e) ==
  SetOffset(W, Vector(W.c.offset.x + e.deltaX \div W.c.zoom,
                      W.c.offset.y + e.deltaY \div W.c.zoom))

\* Wheel deltas are in units of 1/ZoomUnit pixel and the zoom in units of
\* 1/ZoomUnit, so delta / zoom is their quotient.
WheelPan(W, e) ==
  LET zoom == W.c.zoom
      offset == W.c.offset
      dx == IF e.shiftKey
            THEN (IF e.deltaX # 0 THEN e.deltaX ELSE e.deltaY)
            ELSE e.deltaX
      dy == IF e.shiftKey THEN 0 ELSE e.deltaY
  IN SetOffset(W, Vector(offset.x + dx \div zoom, offset.y + dy \div zoom))

Wheel(W, e) ==
  IF e.target # "ascii-canvas" THEN W
  ELSE IF e.ctrlKey
  THEN LET rawDelta == IF e.deltaY # 0 THEN e.deltaY ELSE e.deltaX
       IN IF rawDelta = 0 THEN W ELSE WheelZoom(W, rawDelta)
  ELSE WheelPan(W, e)

(***************************************************************************)
(* The input events: pointers 1 and 2 (fingers or pens, which move only   *)
(* while pressed) on a horizontal line through the centre of the viewport, *)
(* the middle mouse button, the toolbar's tool buttons, and wheel deltas   *)
(* that pan by whole cells.  The cell height is whatever initFont          *)
(* measured, and the view may be the one an earlier session persisted.     *)
(***************************************************************************)
PointerIds == {1, 2}

PointerXs == {0, 160, ClientWidth}

\* Pointer 1 is also the mouse, whose middle button starts a drag.
PointerEvents ==
  [pointerId : PointerIds, x : PointerXs, y : {ClientHeight \div 2},
   button : {0}]
  \cup {[pointerId |-> 1, x |-> 160, y |-> ClientHeight \div 2,
          button |-> 1]}

\* The tool buttons pressed.
ClickedModes == {"BOX", "TEXT"}

\* Frame pixels a wheel event pans by: 1600 cells across, 800 cells up or
\* down.
WheelSteps == {-14400, 0, 14400}

WheelEvents(zoom) ==
  {[target |-> "ascii-canvas", ctrlKey |-> ctrlKey, shiftKey |-> shiftKey,
    deltaX |-> dx * zoom, deltaY |-> dy * zoom] :
     ctrlKey \in BOOLEAN, shiftKey \in BOOLEAN,
     dx \in WheelSteps \cap Nat, dy \in WheelSteps}
  \cup {[target |-> "toolbar", ctrlKey |-> FALSE, shiftKey |-> FALSE,
         deltaX |-> 0, deltaY |-> 14400 * zoom]}

\* What setOffset and setZoom persisted in an earlier session: a view
\* panned past the top left corner of the grid horizontally and past the
\* bottom vertically, and the zooms a pinch to the minimum stores with a
\* cell height of 18 and of 16.
EmptyStorage == [k \in {} |-> Null]

PannedStorage ==
  SetOffset([c |-> CanvasStoreNew(LocalRoute, EmptyStorage),
             ls |-> EmptyStorage, v |-> 0, seen |-> Null],
            Vector(-600 * CHAR_PIXELS_H, 1200 * CHAR_PIXELS_V)).ls

PinchedStorage(zoom) ==
  SetZoom([c |-> CanvasStoreNew(LocalRoute, EmptyStorage),
           ls |-> EmptyStorage, v |-> 0, seen |-> Null], zoom).ls

FontMetrics ==
  [CHAR_PIXELS_H : {CHAR_PIXELS_H}, CHAR_PIXELS_V : MeasuredHeights]

InitInput ==
  /\ \E ls \in {EmptyStorage, PannedStorage} : InitStore(ls)
  /\ font \in FontMetrics
  /\ roundTrip = <<>>
  /\ InitTouch

\* The bounds on the notifications and on the stacks, after a handler.
InBounds(W, maxVersion) ==
  /\ W.v <= maxVersion
  /\ Len(W.c.undoLayers) + Len(W.c.redoLayers) <= MaxStack

InputFrame ==
  UNCHANGED <<route, selectBox, trail, cursor, font, lastEvent, roundTrip, touchVars, localDrawingIds>>

HandlePointerDown ==
  /\ \E e \in PointerEvents :
       /\ e.pointerId \notin pressed
       /\ LET W == PointerDown(Session, e)
          IN InBounds(W, MaxInputVersion) /\ InstallSession(W, "pointerdown")
       /\ pressed' = pressed \cup {e.pointerId}
  /\ InputFrame

HandlePointerMove ==
  /\ \E e \in PointerEvents :
       /\ e.pointerId \in pressed
       /\ e.button = 0
       /\ LET W == PointerMove(Session, e)
          IN InBounds(W, MaxInputVersion) /\ InstallSession(W, "pointermove")
  /\ UNCHANGED pressed
  /\ InputFrame

HandlePointerUp ==
  /\ \E e \in PointerEvents :
       /\ e.pointerId \in pressed
       /\ e.button = 0
       /\ LET W == PointerUp(Session, e)
          IN InBounds(W, MaxInputVersion) /\ InstallSession(W, "pointerup")
       /\ pressed' = pressed \ {e.pointerId}
  /\ InputFrame

ClickTool ==
  /\ \E toolMode \in ClickedModes :
       LET W == SetToolMode(Session, toolMode)
       IN InBounds(W, MaxInputVersion) /\ InstallSession(W, "setToolMode")
  /\ UNCHANGED pressed
  /\ InputFrame

NextInput ==
  \/ HandlePointerDown
  \/ HandlePointerMove
  \/ HandlePointerUp
  \/ ClickTool

SpecInput == InitInput /\ [][NextInput]_vars

InitWheel ==
  /\ \E ls \in {EmptyStorage, PinchedStorage(4 * (ZoomUnit \div 18)),
                 PinchedStorage(3 * (ZoomUnit \div 16))} : InitStore(ls)
  /\ font \in FontMetrics
  /\ roundTrip = <<>>
  /\ InitTouch

HandleWheel ==
  /\ \E e \in WheelEvents(CurrentCanvas.zoom) :
       /\ LET W == Wheel(Session, e)
          IN InBounds(W, MaxWheelVersion) /\ InstallSession(W, "wheel")
       /\ lastEvent' = <<e>>
  /\ UNCHANGED <<route, selectBox, trail, cursor, font, pressed, roundTrip, touchVars, localDrawingIds>>

\* A draw tool rewrites the scratch layer.
ToolDraws ==
  /\ canvasVersion < MaxWheelVersion
  /\ \E layer \in {[k \in {Vector(1, 1)} |-> 65]} :
       Install(SetScratchLayer(World, layer), "setScratchLayer")
  /\ UNCHANGED <<gestureVars, roundTrip, touchVars, localDrawingIds, route, selectBox, selectedToolMode,
                 trail, cursor>>

\* A draw tool commits the scratch layer.
ToolCommits ==
  /\ canvasVersion < MaxWheelVersion
  /\ CanPush
  /\ Install(CommitScratch(World), "commitScratch")
  /\ UNCHANGED <<gestureVars, roundTrip, touchVars, localDrawingIds, route, selectBox, selectedToolMode,
                 trail, cursor>>

NextWheel ==
  \/ HandleWheel
  \/ ToolDraws
  \/ ToolCommits

SpecWheel == InitWheel /\ [][NextWheel]_vars

(***************************************************************************)
(* Export of a layer as text, and the round trip of a text through         *)
(* textToLayer and layerToText.  A text is a sequence of character codes.  *)
(***************************************************************************)
\* A variant of the bounding box that starts at the origin.
BoundingBoxFromOrigin(layer) ==
  LET xs == {k.x : k \in DOMAIN layer}
      ys == {k.y : k \in DOMAIN layer}
  IN [start |-> Vector(0, 0),
      end |-> Vector(CHOOSE x \in xs : \A o \in xs : o <= x,
                     CHOOSE y \in ys : \A o \in ys : o <= y)]

\* The box from the first to the last cell of a layer that has keys.
BoundingBox(layer) ==
  LET xs == {k.x : k \in DOMAIN layer}
      ys == {k.y : k \in DOMAIN layer}
  IN [start |-> Vector(CHOOSE x \in xs : \A o \in xs : x <= o,
                       CHOOSE y \in ys : \A o \in ys : y <= o),
      end |-> Vector(CHOOSE x \in xs : \A o \in xs : o <= x,
                     CHOOSE y \in ys : \A o \in ys : o <= y)]

\* The lines of the box, each filled with spaces to the width of the box
\* and overwritten by the layer's entries, joined by "\n".
LinesOfBox(layer, box) ==
  LET width == box.end.x - box.start.x + 1
      height == box.end.y - box.start.y + 1
      value(k) ==
        IF k \in DOMAIN layer /\ layer[k] # Del
        THEN (IF layer[k] < 32 \/ layer[k] = 127 THEN 32 ELSE layer[k])
        ELSE 32
  IN [n \in 1..(height * (width + 1) - 1) |->
        IF (n - 1) % (width + 1) = width THEN 10
        ELSE value(Vector(box.start.x + ((n - 1) % (width + 1)),
                          box.start.y + ((n - 1) \div (width + 1))))]

LayerToText(layer) ==
  IF DOMAIN layer = {} THEN <<>>
  ELSE LinesOfBox(layer, BoundingBox(layer))

\* The texts loaded: letters, spaces, line feeds, carriage returns and a
\* control character.
TextChars == {65, 32, 10, 13, 7}

Texts == UNION {[1..n -> TextChars] : n \in 0..MaxTextLen}

TextOffsets == {Vector(0, 0), Vector(3, 2)}

InitText ==
  /\ InitStore(EmptyStorage)
  /\ font = [CHAR_PIXELS_H |-> CHAR_PIXELS_H, CHAR_PIXELS_V |-> CHAR_PIXELS_V]
  /\ \E text \in Texts :
       roundTrip = [stage |-> "text", text |-> text, offset |-> Vector(0, 0),
                    layer |-> EmptyLayer, exported |-> <<>>]
  /\ InitTouch

TextFrame ==
  UNCHANGED <<route, canvases, localStorage, canvasVersion, observed,
              selectBox, selectedToolMode, lastOp, trail, cursor,
              gestureVars, localDrawingIds, touchVars>>

LoadText ==
  /\ roundTrip.stage = "text"
  /\ \E offset \in TextOffsets :
       roundTrip' = [roundTrip EXCEPT
                       !.stage = "layer",
                       !.offset = offset,
                       !.layer = TextToLayer(roundTrip.text, offset)]
  /\ TextFrame

ExportText ==
  /\ roundTrip.stage = "layer"
  /\ roundTrip' = [roundTrip EXCEPT
                     !.stage = "exported",
                     !.exported = LayerToText(roundTrip.layer)]
  /\ TextFrame

NextText ==
  \/ LoadText
  \/ ExportText

SpecText == InitText /\ [][NextText]_vars

(***************************************************************************)
(* A mouse that moves over the canvas without a button down, and leaves    *)
(* it, next to the pressed pointers.  Pointer 1 is the mouse.              *)
(***************************************************************************)
PointerLeave(W, e) ==
  IF e.pointerId \notin DOMAIN W.inputController.pointers THEN W
  ELSE LET W1 == [W EXCEPT !.inputController.pointers =
                             DeletePointer(@, e.pointerId)]
       IN IF Cardinality(DOMAIN W1.inputController.pointers) = 0
          THEN ResetMultiTouch(EndAll(W1))
          ELSE W1

\* pointermove of the mouse with no button down.
HandlePointerHover ==
  /\ \E e \in PointerEvents :
       /\ e.pointerId = 1
       /\ e.pointerId \notin pressed
       /\ e.button = 0
       /\ e.x = 160
       /\ LET W == PointerMove(Session, e)
          IN InBounds(W, MaxInputVersion) /\ InstallSession(W, "pointerhover")
  /\ UNCHANGED pressed
  /\ InputFrame

\* pointerleave of a pointer that is not pressed (a pressed pointer is
\* captured and gets pointerup instead).
HandlePointerLeave ==
  /\ \E e \in PointerEvents :
       /\ e.pointerId = 1
       /\ e.pointerId \notin pressed
       /\ e.button = 0
       /\ e.x = 160
       /\ LET W == PointerLeave(Session, e)
          IN InBounds(W, MaxInputVersion) /\ InstallSession(W, "pointerleave")
  /\ UNCHANGED pressed
  /\ InputFrame

NextHover ==
  \/ HandlePointerDown
  \/ HandlePointerMove
  \/ HandlePointerUp
  \/ HandlePointerHover
  \/ HandlePointerLeave

InitHover ==
  /\ InitStore(EmptyStorage)
  /\ font = [CHAR_PIXELS_H |-> CHAR_PIXELS_H, CHAR_PIXELS_V |-> CHAR_PIXELS_V]
  /\ roundTrip = <<>>
  /\ InitTouch

SpecHover == InitHover /\ [][NextHover]_vars

(***************************************************************************)
(* The TouchController of controller.ts.  handlePress leaves a timeout     *)
(* that starts the draw DRAG_LATENCY later; the timeouts all have the same *)
(* delay, so they fire in the order they were set.  A press is numbered by *)
(* its place in touchWindow.presses, and pressTimestamp holds the number   *)
(* of the press it was taken at: less than DRAG_LATENCY has passed since   *)
(* only while that press's timeout is pending (the timeout may run late,   *)
(* so more may have passed).  Positions of one finger are either equal or  *)
(* further apart than DRAG_ACCURACY.                                       *)
(***************************************************************************)
TouchPositions ==
  {Scaled(x, ClientHeight \div 2, 1) : x \in {160, ClientWidth}}

\* Two fingers: the positions of touches 0 and 1.
TouchPairs ==
  {<<Scaled(160, ClientHeight \div 2, 1), Scaled(x, ClientHeight \div 2, 1)>> :
     x \in {320, 480}}

\* The press a timeout belongs to is still waiting for its timeout.
TimerPending(press) ==
  \E n \in DOMAIN touchWindow.timers : touchWindow.timers[n].press = press

\* The history of the press taken last: what became of it.
PressBecomes(state) ==
  LET presses == touchWindow.presses
      last == Len(presses)
  IN IF last > 0 /\ presses[last].state = "held"
     THEN [presses EXCEPT ![last].state = state]
     ELSE presses

TouchFrame ==
  UNCHANGED <<route, selectBox, trail, cursor, font, lastEvent, pressed,
              roundTrip, localDrawingIds>>

\* handleTouchStart with one touch: handlePress.
HandlePress ==
  /\ touchWindow.touches = 0
  /\ Len(touchWindow.presses) < MaxPresses
  /\ \E position \in TouchPositions :
       LET press == Len(touchWindow.presses) + 1
       IN /\ touchController' =
               [touchController EXCEPT !.pressVector = <<position>>,
                                       !.pressTimestamp = press,
                                       !.dragStarted = FALSE]
          /\ touchWindow' =
               [timers |-> Append(touchWindow.timers,
                                  [press |-> press, position |-> position]),
                touches |-> 1,
                presses |-> Append(touchWindow.presses,
                                   [position |-> position, state |-> "held",
                                    draws |-> <<>>])]
  /\ InstallSession(Session, "touchstart")
  /\ TouchFrame

\* handleTouchStart with two touches: handlePressMulti.
HandlePressMulti ==
  /\ touchWindow.touches = 1
  /\ \E pair \in TouchPairs :
       LET W == EndAll(Session)
       IN /\ InBounds(W, MaxTouchVersion)
          /\ InstallSession(W, "touchstart")
          /\ touchController' =
               [touchController EXCEPT
                  !.zoomStarted = TRUE,
                  !.dragStarted = FALSE,
                  !.zoomLength = Length(Scaled(pair[1].x - pair[2].x,
                                               pair[1].y - pair[2].y, 1)),
                  !.originalZoom = W.c.zoom]
  /\ touchWindow' = [touchWindow EXCEPT !.touches = 2,
                                        !.presses = PressBecomes("pinch")]
  /\ TouchFrame

\* handleTouchMove with one touch: handleMove.  Vector.subtract of a null
\* pressVector throws, and the handler ends there.
TouchHandleMove ==
  /\ touchWindow.touches = 1
  /\ \E position \in TouchPositions :
     \E inTime \in IF TimerPending(touchController.pressTimestamp)
                   THEN BOOLEAN ELSE {FALSE} :
       LET measures == ~touchController.dragStarted /\ inTime
       IN IF measures /\ touchController.pressVector = <<>>
          THEN /\ InstallSession(Session, "throws")
               /\ UNCHANGED touchVars
          ELSE LET drags == measures
                              /\ position # touchController.pressVector[1]
                   W1 == IF drags THEN StartDrag(Session, position)
                         ELSE Session
                   W == HandleMove(W1, position)
               IN /\ InBounds(W, MaxTouchVersion)
                  /\ InstallSession(W, "touchmove")
                  /\ touchController' =
                       [touchController EXCEPT
                          !.dragStarted = @ \/ drags]
                  /\ touchWindow' =
                       IF drags
                       THEN [touchWindow EXCEPT
                               !.presses = PressBecomes("drag")]
                       ELSE touchWindow
  /\ TouchFrame

\* Math.max(Math.min(newZoom, 5), 0.5) of the zoom n/d, cut to a whole unit.
ClampTouchZoom(zoom) ==
  IF zoom.n > 5 * ZoomUnit * zoom.d THEN 5 * ZoomUnit
  ELSE IF 2 * zoom.n < ZoomUnit * zoom.d THEN ZoomUnit \div 2
  ELSE zoom.n \div zoom.d

\* handleTouchMove with two touches: handleMoveMulti.
HandleMoveMulti ==
  /\ touchWindow.touches = 2
  /\ \E pair \in TouchPairs :
       LET length == Length(Scaled(pair[1].x - pair[2].x,
                                   pair[1].y - pair[2].y, 1))
           W == IF touchController.zoomStarted
                THEN SetZoom(Session, ClampTouchZoom(
                       [n |-> touchController.originalZoom * length,
                        d |-> touchController.zoomLength]))
                ELSE Session
       IN InBounds(W, MaxTouchVersion) /\ InstallSession(W, "touchmove")
  /\ UNCHANGED touchVars
  /\ TouchFrame

\* reset(): ends all current actions, cleans up any state.
TouchReset(T) ==
  [T EXCEPT !.dragStarted = FALSE, !.zoomStarted = FALSE, !.pressVector = <<>>]

\* handleTouchEnd: a finger is lifted.
HandleTouchEnd ==
  /\ touchWindow.touches > 0
  /\ LET W == EndAll(Session)
     IN InBounds(W, MaxTouchVersion) /\ InstallSession(W, "touchend")
  /\ touchController' = TouchReset(touchController)
  /\ touchWindow' = [touchWindow EXCEPT !.touches = @ - 1,
                                        !.presses = PressBecomes("released")]
  /\ TouchFrame

\* The timeout of handlePress runs, for the press set longest ago.
LatencyTimerFires ==
  /\ touchWindow.timers # <<>>
  /\ LET timer == Head(touchWindow.timers)
         draws == /\ ~touchController.dragStarted
                  /\ ~touchController.zoomStarted
                  /\ touchController.pressVector # <<>>
         W == IF draws THEN StartDraw(Session, timer.position) ELSE Session
     IN /\ InBounds(W, MaxTouchVersion)
        /\ InstallSession(W, "timeout")
        /\ touchWindow' =
             [touchWindow EXCEPT
                !.timers = Tail(@),
                !.presses[timer.press].draws =
                  IF draws
                  THEN Append(@, [position |-> timer.position,
                                  state |->
                                    touchWindow.presses[timer.press].state])
                  ELSE @]
  /\ UNCHANGED touchController
  /\ TouchFrame

NextTouch ==
  \/ HandlePress
  \/ HandlePressMulti
  \/ TouchHandleMove
  \/ HandleMoveMulti
  \/ HandleTouchEnd
  \/ LatencyTimerFires

SpecTouch == Init /\ [][NextTouch]_vars

(***************************************************************************)
(* Keys during a draw gesture: the pointer handlers and the key handler.   *)
(***************************************************************************)
\* handleKeyDown, with the event kept for the properties.
KeyDownDuringEdit ==
  /\ \E e \in KeyEvents :
       /\ LET W == KeyDown(Session, e)
          IN InBounds(W, MaxKeysVersion) /\ InstallSession(W, "keydown")
       /\ lastEvent' = <<e>>
  /\ UNCHANGED <<route, selectBox, trail, cursor, font, pressed, roundTrip, touchVars,
                 localDrawingIds>>

NextKeys ==
  \/ ToolDraws
  \/ ToolCommits
  \/ KeyDownDuringEdit

SpecKeys == Init /\ [][NextKeys]_vars

(***************************************************************************)
(* The drawings of the store: the list of local drawings, the cache of     *)
(* CanvasStore instances, and the file panel's handlers that create,       *)
(* open, fork, rename and delete drawings.  Storage is whatever an earlier *)
(* session, or anything else writing to localStorage, left behind.         *)
(***************************************************************************)
\* The names a user types for a drawing; the default drawing has none.
DrawingNames == {"null", "a"}

\* The share specs of the links followed: a well-formed and a truncated one.
ShareSpecs == {"spec", "truncated"}

KnownDrawingIds ==
  {DrawingIdLocal(n) : n \in {Null} \cup DrawingNames}
    \cup {DrawingIdShare(spec) : spec \in ShareSpecs}

CanvasKeys ==
  {"committed-layer", "undo-layers", "redo-layers", "zoom", "offset"}

\* What a well-behaved session stored for the default drawing.
ValidStored(key) ==
  CASE key = "committed-layer" -> LayerSerialize(ShareLayer("spec"))
    [] key = "undo-layers" ->
         LayerArraySerialize(<<[k \in {Vector(0, 0)} |-> Del]>>)
    [] key = "redo-layers" ->
         LayerArraySerialize(<<[k \in {Vector(1, 0)} |-> 66]>>)
    [] key = "zoom" -> JSONSerialize(2 * ZoomUnit)
    [] OTHER -> JSONSerialize(Vector(100 * STORED_CHAR_PIXELS_H,
                                     100 * STORED_CHAR_PIXELS_V))

\* The storage with the given keys of the default drawing valid, the given
\* keys undecodable, and the others missing.
StoredSession(valid, bad) ==
  [k \in {StorageKey(LocalRoute, key) : key \in valid \cup bad} |->
     IF k[3] \in valid THEN ValidStored(k[3]) ELSE Garbage]

\* Stored offsets that are not a whole number of cells, and a stored zoom
\* of 0, on an otherwise empty storage.
OddStored ==
  {SetItem(EmptyStorage, StorageKey(LocalRoute, "offset"),
           JSONSerialize(v)) : v \in {Vector(450, 800), Vector(7, 8)}}
    \cup {SetItem(EmptyStorage, StorageKey(LocalRoute, "zoom"),
                  JSONSerialize(0))}

\* Every storage in which each key of the default drawing is, on its own,
\* valid, undecodable or missing.
StoredSessions ==
  {StoredSession(valid, bad) :
     valid \in SUBSET CanvasKeys, bad \in SUBSET CanvasKeys}
    \cup OddStored

\* Whether new CanvasStore(drawingId) returns: the constructor decodes the
\* share spec outside any try block.
Opens(drawingId) ==
  drawingId.shareSpec = Null \/ ShareSpecDecodes(drawingId.shareSpec)

StartsWith(key, prefix) == Len(key) > 2 /\ SubSeq(key, 1, 2) = prefix

RemoveItems(ls, keys) == [k \in DOMAIN ls \ keys |-> ls[k]]

Filter(ids, drawingId) == SelectSeq(ids, LAMBDA d : d # drawingId)

\* store.drawings, for a route and a list of local drawings.
Drawings(r, ids) ==
  IF r.shareSpec # Null THEN <<r>> \o ids
  ELSE IF ~ \E i \in DOMAIN ids :
              ids[i].localId = Null /\ ids[i].shareSpec = Null
       THEN <<LocalRoute>> \o ids
       ELSE ids

IsValidDrawingName(name) ==
  ~ \E i \in DOMAIN localDrawingIds : localDrawingIds[i] = DrawingIdLocal(name)

\* store.setLocalDrawingIds: the state and the stored list.
SetLocalDrawingIds(ls, value) ==
  SetItem(ls, <<"localDrawingIds">>, JSONSerialize(value))

\* What a subscriber reads after a notification: the canvas of the route.
Seen(cs, ls) ==
  [c |-> IF route \in DOMAIN cs THEN cs[route]
         ELSE CanvasStoreNew(route, ls),
   ls |-> ls]

DrawingsFrame ==
  UNCHANGED <<selectBox, selectedToolMode, trail, cursor, tools, controller,
              inputController, font, toolCell, pressed, toolCalls,
              roundTrip, touchVars>>

\* A session that starts on any of the storages.
InitStored ==
  /\ \E ls \in StoredSessions : InitStore(ls)
  /\ font = [CHAR_PIXELS_H |-> CHAR_PIXELS_H, CHAR_PIXELS_V |-> CHAR_PIXELS_V]
  /\ roundTrip = <<>>
  /\ InitTouch

\* A session that starts on the storage of a well-behaved session.
InitDrawings ==
  /\ InitStore(StoredSession(CanvasKeys, {}))
  /\ font = [CHAR_PIXELS_H |-> CHAR_PIXELS_H, CHAR_PIXELS_V |-> CHAR_PIXELS_V]
  /\ roundTrip = <<>>
  /\ InitTouch

\* A link or a file row is followed: the route changes.
FollowLink ==
  /\ \E value \in KnownDrawingIds :
       /\ route' = value
       /\ lastEvent' = <<value>>
  /\ lastOp' = "setRoute"
  /\ UNCHANGED <<canvases, localStorage, canvasVersion, observed,
                 localDrawingIds>>
  /\ DrawingsFrame

\* store.canvas(id), which the render makes for the route and the share
\* button for a listed drawing.
StoreCanvas ==
  /\ \E id \in {route} \cup {localDrawingIds[i] : i \in DOMAIN localDrawingIds} :
       /\ lastEvent' = <<id>>
       /\ IF id \in DOMAIN canvases
          THEN canvases' = canvases /\ lastOp' = "cached"
          ELSE IF ~Opens(id)
          THEN canvases' = canvases /\ lastOp' = "throws"
          ELSE /\ canvases' =
                    [k \in DOMAIN canvases \cup {id} |->
                       IF k = id THEN CanvasStoreNew(id, localStorage)
                       ELSE canvases[k]]
               /\ lastOp' = "construct"
  /\ UNCHANGED <<route, localStorage, canvasVersion, observed,
                 localDrawingIds>>
  /\ DrawingsFrame

\* A zoom of the drawing shown.
DrawingSetZoom ==
  /\ Opens(route)
  /\ canvasVersion < MaxDrawingsVersion
  /\ Install(SetZoom(World, 2 * ZoomUnit), "setZoom")
  /\ lastEvent' = <<route>>
  /\ UNCHANGED <<route, localDrawingIds>>
  /\ DrawingsFrame

\* canvas.setOffset(canvas.offset) on the drawing shown.
DrawingSetOffset ==
  /\ Opens(route)
  /\ canvasVersion < MaxDrawingsVersion
  /\ Install(SetOffset(World, CurrentCanvas.offset), "setOffset")
  /\ lastEvent' = <<route>>
  /\ UNCHANGED <<route, localDrawingIds>>
  /\ DrawingsFrame

\* NewDrawingRow.handleCreate.
HandleCreate ==
  /\ Opens(route)
  /\ Len(localDrawingIds) < MaxDrawings
  /\ \E name \in DrawingNames :
       /\ IsValidDrawingName(name)
       /\ localDrawingIds' = Append(localDrawingIds, DrawingIdLocal(name))
       /\ localStorage' = SetLocalDrawingIds(localStorage, localDrawingIds')
       /\ route' = DrawingIdLocal(name)
       /\ lastEvent' = <<DrawingIdLocal(name)>>
  /\ lastOp' = "create"
  /\ UNCHANGED <<canvases, canvasVersion, observed>>
  /\ DrawingsFrame

\* FileRow.handleDelete: store.deleteDrawing and the navigation after it.
\* deleteDrawing that keeps the cached instance.
DeleteDrawingKeepsCanvas(drawingId) ==
  LET filtered == Filter(localDrawingIds, drawingId)
      ls1 == SetLocalDrawingIds(localStorage, filtered)
      ls2 == RemoveItems(ls1, {k \in DOMAIN ls1 :
                                 StartsWith(k, StoragePrefix(drawingId))})
  IN [ids |-> filtered, ls |-> ls2, cs |-> canvases]

DeleteDrawing(drawingId) ==
  LET filtered == Filter(localDrawingIds, drawingId)
      ls1 == SetLocalDrawingIds(localStorage, filtered)
      ls2 == RemoveItems(ls1, {k \in DOMAIN ls1 :
                                 StartsWith(k, StoragePrefix(drawingId))})
  IN [ids |-> filtered, ls |-> ls2,
      cs |-> [k \in DOMAIN canvases \ {drawingId} |-> canvases[k]]]

HandleDelete ==
  /\ Opens(route)
  /\ canvasVersion < MaxDrawingsVersion
  /\ \E i \in DOMAIN Drawings(route, localDrawingIds) :
       LET drawingId == Drawings(route, localDrawingIds)[i]
           D == DeleteDrawing(drawingId)
       IN /\ drawingId.shareSpec = Null
          /\ localDrawingIds' = D.ids
          /\ localStorage' = D.ls
          /\ canvases' = D.cs
          /\ observed' = Seen(D.cs, D.ls)
          /\ route' = Drawings(route, D.ids)[1]
          /\ lastEvent' = <<drawingId>>
  /\ canvasVersion' = canvasVersion + 1
  /\ lastOp' = "deleteDrawing"
  /\ DrawingsFrame

\* store.renameDrawing: the keys under the original prefix are stored under
\* the new one and removed, in that order.
RenameDrawing(originalLocalId, newLocalId) ==
  LET originalId == DrawingIdLocal(originalLocalId)
      newId == DrawingIdLocal(newLocalId)
      moved == {k \in DOMAIN localStorage :
                  StartsWith(k, StoragePrefix(originalId))}
      Renamed(k) == StorageKey(newId, k[3])
      ls1 == [k \in (DOMAIN localStorage \cup {Renamed(m) : m \in moved})
                      \ moved |->
                IF \E m \in moved : Renamed(m) = k
                THEN localStorage[CHOOSE m \in moved : Renamed(m) = k]
                ELSE localStorage[k]]
      updated == Append(Filter(localDrawingIds, originalId), newId)
  IN [ids |-> updated, ls |-> SetLocalDrawingIds(ls1, updated),
      cs |-> [k \in DOMAIN canvases \ {originalId} |-> canvases[k]]]

\* FileRow.handleRenameSubmit.
HandleRenameSubmit ==
  /\ Opens(route)
  /\ \E i \in DOMAIN Drawings(route, localDrawingIds),
        newName \in DrawingNames :
       LET drawingId == Drawings(route, localDrawingIds)[i]
           R == RenameDrawing(drawingId.localId, newName)
       IN /\ drawingId.shareSpec = Null
          /\ newName # drawingId.localId
          /\ IsValidDrawingName(newName)
          /\ localDrawingIds' = R.ids
          /\ localStorage' = R.ls
          /\ canvases' = R.cs
          /\ route' = DrawingIdLocal(newName)
          /\ lastEvent' = <<drawingId, DrawingIdLocal(newName)>>
  /\ lastOp' = "renameDrawing"
  /\ UNCHANGED <<canvasVersion, observed>>
  /\ DrawingsFrame

\* The fork button of a shared drawing: store.saveDrawing and the
\* navigation after it.  The button does not look at the name's validity.
SaveDrawing ==
  /\ Opens(route)
  /\ route.shareSpec # Null
  /\ canvasVersion < MaxDrawingsVersion
  /\ Len(localDrawingIds) < MaxDrawings
  /\ \E name \in DrawingNames :
       LET sharedDrawing == GetCanvas(route)
           localDrawing == GetCanvas(DrawingIdLocal(name))
           W == SetCommitted([c |-> localDrawing, ls |-> localStorage,
                              v |-> canvasVersion, seen |-> observed],
                             sharedDrawing.committed)
           cs == [k \in DOMAIN canvases
                          \cup {route, DrawingIdLocal(name)} |->
                    IF k = DrawingIdLocal(name) THEN W.c
                    ELSE IF k = route THEN sharedDrawing
                    ELSE canvases[k]]
       IN /\ canvases' = cs
          /\ localDrawingIds' = Append(localDrawingIds, DrawingIdLocal(name))
          /\ localStorage' = SetLocalDrawingIds(W.ls, localDrawingIds')
          /\ canvasVersion' = W.v
          /\ observed' = W.seen
          /\ route' = DrawingIdLocal(name)
          /\ lastEvent' = <<DrawingIdLocal(name)>>
  /\ lastOp' = "saveDrawing"
  /\ DrawingsFrame

\* Construction from stored strings, and the writes of zoom and offset.
NextStored ==
  \/ StoreCanvas
  \/ DrawingSetZoom
  \/ DrawingSetOffset

SpecStored == InitStored /\ [][NextStored]_vars

NextDrawings ==
  \/ FollowLink
  \/ StoreCanvas
  \/ DrawingSetZoom
  \/ HandleCreate
  \/ HandleDelete
  \/ HandleRenameSubmit
  \/ SaveDrawing

SpecDrawings == InitDrawings /\ [][NextDrawings]_vars

(***************************************************************************)
(* Properties.                                                             *)
(***************************************************************************)
Last(stack) == stack[Len(stack)]

Pop(stack) == SubSeq(stack, 1, Len(stack) - 1)

\* The scratch and view fields, which the history operations leave alone.
Aside(c) == <<c.scratch, c.selection, c.zoom, c.offset>>

\* C1: for the committed layer L of every reachable store and every delta D
\* (deletion marks included), applying to L.apply(D)[0] the inverse
\* L.apply(D)[1] gives back L: the same keys, the same value at every key.
ApplyInverseExact ==
  \A d \in Deltas :
    LET L == CurrentCanvas.committed
        applied == Apply(L, d)
    IN Apply(applied[1], applied[2])[1] = L

\* C1 witness: an undo has applied the inverse of a commit that wrote two
\* cells, and left a non-empty committed layer.
ApplyInverseWitness ==
  /\ lastOp = "undo"
  /\ Len(CurrentCanvas.redoLayers) > 0
  /\ Size(CurrentCanvas.committed) > 0
  /\ Size(Last(CurrentCanvas.redoLayers)) > 1

\* C2: commitScratch() sets committed to committed.apply(scratch)[0], pushes
\* the inverse delta onto the undo stack iff it is non-empty, empties the
\* redo stack and empties scratch.
CommitScratchEffect ==
  [][lastOp' = "commitScratch" =>
       LET c == CurrentCanvas
           applied == Apply(c.committed, c.scratch)
       IN /\ CurrentCanvas'.committed = applied[1]
          /\ CurrentCanvas'.undoLayers =
               IF Size(applied[2]) > 0
               THEN Append(c.undoLayers, applied[2])
               ELSE c.undoLayers
          /\ CurrentCanvas'.redoLayers = <<>>
          /\ CurrentCanvas'.scratch = EmptyLayer]_vars

\* C2 witness: a commit pushed a second inverse delta.
CommitScratchWitness ==
  /\ lastOp = "commitScratch"
  /\ Len(CurrentCanvas.undoLayers) = 2
  /\ Size(CurrentCanvas.committed) > 0

\* C3: undo() on a non-empty undo stack removes exactly the last entry D,
\* sets committed to committed.apply(D)[0] and pushes the inverse onto the
\* redo stack; scratch, selection, zoom and offset are unchanged.
UndoEffect ==
  [][lastOp' = "undo" /\ Len(CurrentCanvas.undoLayers) > 0 =>
       LET c == CurrentCanvas
           applied == Apply(c.committed, Last(c.undoLayers))
       IN /\ CurrentCanvas'.undoLayers = Pop(c.undoLayers)
          /\ CurrentCanvas'.committed = applied[1]
          /\ CurrentCanvas'.redoLayers = Append(c.redoLayers, applied[2])
          /\ Aside(CurrentCanvas') = Aside(c)]_vars

\* C3 witness: an undo moved an entry to the redo stack while scratch and
\* zoom were set.
UndoWitness ==
  /\ lastOp = "undo"
  /\ Len(CurrentCanvas.redoLayers) > 0
  /\ Size(CurrentCanvas.scratch) > 0
  /\ CurrentCanvas.zoom = 2 * ZoomUnit

\* C4: redo() on a non-empty redo stack removes exactly the last entry D,
\* sets committed to committed.apply(D)[0] and pushes the inverse onto the
\* undo stack; scratch, selection, zoom and offset are unchanged.
RedoEffect ==
  [][lastOp' = "redo" /\ Len(CurrentCanvas.redoLayers) > 0 =>
       LET c == CurrentCanvas
           applied == Apply(c.committed, Last(c.redoLayers))
       IN /\ CurrentCanvas'.redoLayers = Pop(c.redoLayers)
          /\ CurrentCanvas'.committed = applied[1]
          /\ CurrentCanvas'.undoLayers = Append(c.undoLayers, applied[2])
          /\ Aside(CurrentCanvas') = Aside(c)]_vars

\* C4 witness: a redo moved an entry back to the undo stack.
RedoWitness ==
  /\ lastOp = "redo"
  /\ Len(CurrentCanvas.undoLayers) > 0
  /\ Size(CurrentCanvas.committed) > 0
  /\ canvasVersion = 4

\* C5: with C0..Cn the committed layers after each commit of a non-empty
\* scratch, k <= n undos leave committed at C(n-k) and j <= k following
\* redos at C(n-k+j): committed is always the trail entry the cursor is at.
HistoryWalk == CurrentCanvas.committed = trail[cursor].layer

\* C5 witness: two commits, two undos, then one redo (n = 2, k = 2, j = 1).
HistoryWalkWitness ==
  /\ lastOp = "redo"
  /\ Len(trail) = 3
  /\ cursor = 2
  /\ \A i \in 2..3 : trail[i].op = "commitScratch"
  /\ trail[1].layer # trail[2].layer
  /\ trail[2].layer # trail[3].layer
  /\ canvasVersion = 7

\* C6: undo() on an empty undo stack and redo() on an empty redo stack
\* change nothing: not the store, not a persisted key, not canvasVersion.
EmptyStackNoOp ==
  [][(\/ lastOp' = "undo" /\ Len(CurrentCanvas.undoLayers) = 0
      \/ lastOp' = "redo" /\ Len(CurrentCanvas.redoLayers) = 0) =>
       /\ CurrentCanvas' = CurrentCanvas
       /\ localStorage' = localStorage
       /\ canvasVersion' = canvasVersion]_vars

\* C6 witness: undo() ran with both stacks empty on a drawn canvas.
EmptyStackWitness ==
  /\ lastOp = "undo"
  /\ Len(CurrentCanvas.undoLayers) = 0
  /\ Len(CurrentCanvas.redoLayers) = 0
  /\ Size(CurrentCanvas.committed) > 0

\* C7: clear() pushes the whole committed layer onto the undo stack as one
\* entry, makes committed empty and empties the redo stack; scratch,
\* selection, zoom and offset are unchanged.
ClearEffect ==
  [][lastOp' = "clear" =>
       LET c == CurrentCanvas
       IN /\ CurrentCanvas'.undoLayers = Append(c.undoLayers, c.committed)
          /\ CurrentCanvas'.committed = EmptyLayer
          /\ CurrentCanvas'.redoLayers = <<>>
          /\ Aside(CurrentCanvas') = Aside(c)]_vars

\* C7 witness: clear() pushed a committed layer of two cells.
ClearWitness ==
  /\ lastOp = "clear"
  /\ Len(CurrentCanvas.undoLayers) > 0
  /\ Size(Last(CurrentCanvas.undoLayers)) = 2

\* C8: undo() right after clear() leaves committed as it was before the
\* clear, and a redo() after that leaves committed empty again.
ClearUndoable ==
  [][/\ (lastOp = "clear" /\ lastOp' = "undo") =>
          CurrentCanvas'.committed = trail[cursor].before
     /\ (/\ lastOp = "undo" /\ lastOp' = "redo"
         /\ cursor < Len(trail) /\ trail[cursor'].op = "clear") =>
          CurrentCanvas'.committed = EmptyLayer]_vars

\* C8 witness: a non-empty layer was cleared, restored by undo, and
\* cleared again by redo.
ClearUndoableWitness ==
  /\ lastOp = "redo"
  /\ trail[cursor].op = "clear"
  /\ Size(trail[cursor].before) > 0
  /\ CurrentCanvas.committed = EmptyLayer

\* C9: every state-changing CanvasStore operation notifies exactly once,
\* after its in-memory and persisted writes: canvasVersion rises by one and
\* the subscriber reads the final store and storage; it never decreases.
NotifyOnceAfterWrites ==
  [][/\ (\/ lastOp' \in {"setZoom", "resetZoom", "setOffset", "setCommitted",
                        "setSelection", "clearSelection", "setScratchLayer",
                        "clearScratch", "clear", "commitScratch"}
         \/ lastOp' = "undo" /\ Len(CurrentCanvas.undoLayers) > 0
         \/ lastOp' = "redo" /\ Len(CurrentCanvas.redoLayers) > 0) =>
          /\ canvasVersion' = canvasVersion + 1
          /\ observed' = [c |-> CurrentCanvas', ls |-> localStorage']
     /\ canvasVersion' >= canvasVersion]_vars

\* C9 witness: five notifications, the last from setOffset.
NotifyWitness ==
  /\ lastOp = "setOffset"
  /\ canvasVersion = 5
  /\ Len(CurrentCanvas.undoLayers) > 0

\* C10: while the route is the shared drawing, no key press, cut or paste
\* changes that drawing's committed layer or its undo and redo stacks.
ShareReadOnly ==
  [][route = ShareRoute /\ route' = ShareRoute =>
       /\ GetCanvas(ShareRoute)'.committed = GetCanvas(ShareRoute).committed
       /\ GetCanvas(ShareRoute)'.undoLayers = GetCanvas(ShareRoute).undoLayers
       /\ GetCanvas(ShareRoute)'.redoLayers = GetCanvas(ShareRoute).redoLayers
    ]_vars

\* C11: on a share route toolMode() is undefined and the current tool is
\* the null tool; on a local route toolMode() is the selected tool mode and
\* the current tool is the tool of that mode.
ToolFollowsRoute ==
  IF route.shareSpec # Null
  THEN ToolMode = Undefined /\ CurrentTool = "nullTool"
  ELSE /\ ToolMode = selectedToolMode
       /\ \E pair \in {<<"BOX", "boxTool">>, <<"LINES", "lineTool">>,
                        <<"ARROWS", "arrowTool">>,
                        <<"FREEFORM", "freeformTool">>,
                        <<"TEXT", "textTool">>, <<"SELECT", "selectTool">>} :
            selectedToolMode = pair[1] /\ CurrentTool = pair[2]

\* C11 witness: a share route reached with the text mode selected before.
ToolFollowsRouteWitness ==
  /\ route = ShareRoute
  /\ selectedToolMode = "TEXT"
  /\ lastOp = "setRoute"

\* C12: abandoning a draw gesture in progress, by a second pointer going
\* down or by a switch of tool, leaves every tool idle and commits nothing:
\* the committed layer and the undo stack are what they were.
AbandonCommitsNothing ==
  [][controller.mode = "DRAW"
       /\ \/ lastOp' = "pointerdown"
          \/ lastOp' = "setToolMode" /\ selectedToolMode' # selectedToolMode
     => /\ \A t \in DrawTools : tools'[t] = Idle
        /\ CurrentCanvas'.committed = CurrentCanvas.committed
        /\ CurrentCanvas'.undoLayers = CurrentCanvas.undoLayers]_vars

CellRoundTrip ==
  \A x \in {2, MAX_GRID_WIDTH \div 2, MAX_GRID_WIDTH - 3},
     y \in {2, MAX_GRID_HEIGHT \div 2, MAX_GRID_HEIGHT - 3} :
    ScreenToCell(Session, CellToScreen(Session, Vector(x, y))) = Vector(x, y)

\* C16: after a wheel zoom or a pinch zoom the stored zoom lies within
\* [0.2, 5].
ZoomInRange ==
  lastOp \in {"wheel", "pointermove"} =>
    /\ 5 * CurrentCanvas.zoom >= ZoomUnit
    /\ CurrentCanvas.zoom <= 5 * ZoomUnit

WheelZoomStrict ==
  [][LET e == lastEvent'[1]
         rawDelta == IF e.deltaY # 0 THEN e.deltaY ELSE e.deltaX
     IN lastOp' = "wheel" /\ e.target = "ascii-canvas" /\ e.ctrlKey
          /\ rawDelta # 0
        => /\ rawDelta < 0 /\ CurrentCanvas.zoom < 5 * ZoomUnit
              => CurrentCanvas'.zoom > CurrentCanvas.zoom
           /\ rawDelta > 0 /\ 5 * CurrentCanvas.zoom > ZoomUnit
              => CurrentCanvas'.zoom < CurrentCanvas.zoom]_vars

\* C19: a wheel event on the canvas without Ctrl moves the offset by
\* (deltaX, deltaY) / zoom, or with Shift by the delta along x only, and
\* leaves the zoom alone; a purely vertical one leaves offset.x alone; one
\* with Ctrl leaves the offset alone.  Neither changes the committed layer,
\* the scratch layer or the undo and redo stacks.
WheelEffect ==
  [][LET e == lastEvent'[1]
         before == CurrentCanvas
         after == CurrentCanvas'
         dx == IF e.shiftKey
               THEN (IF e.deltaX # 0 THEN e.deltaX ELSE e.deltaY)
               ELSE e.deltaX
         dy == IF e.shiftKey THEN 0 ELSE e.deltaY
     IN lastOp' = "wheel" /\ e.target = "ascii-canvas"
        => /\ after.committed = before.committed
           /\ after.scratch = before.scratch
           /\ after.undoLayers = before.undoLayers
           /\ after.redoLayers = before.redoLayers
           /\ e.ctrlKey => after.offset = before.offset
           /\ ~e.ctrlKey =>
                /\ after.zoom = before.zoom
                /\ (after.offset.x - before.offset.x) * before.zoom = dx
                /\ (after.offset.y - before.offset.y) * before.zoom = dy
                /\ ~e.shiftKey /\ e.deltaX = 0
                     => after.offset.x = before.offset.x]_vars

\* C19 witness: Shift+wheel with a vertical delta has panned along x, over
\* a drawing with a committed layer and an undo stack.
WheelEffectWitness ==
  /\ lastOp = "wheel"
  /\ lastEvent[1].shiftKey /\ ~lastEvent[1].ctrlKey
  /\ lastEvent[1].deltaX = 0 /\ lastEvent[1].deltaY < 0
  /\ CurrentCanvas.offset.x < 0
  /\ Len(CurrentCanvas.undoLayers) > 0
  /\ CurrentCanvas.committed # EmptyLayer

\* C20: for every text T without control characters, layerToText of
\* textToLayer(T) is T, with \r\n and \r normalised to \n.
TextRoundTrip ==
  roundTrip.stage = "exported"
    /\ (\A n \in DOMAIN roundTrip.text : roundTrip.text[n] # 7)
  => roundTrip.exported = NormaliseLineEndings(roundTrip.text)

\* C20, amended: for every text T without control characters that is
\* empty or, once its line endings are normalised, has lines of one length
\* with a character other than a space in its first line, its last line,
\* its first column and its last column, layerToText of textToLayer(T) is
\* T with \r\n and \r normalised to \n.
FramedTextRoundTrip ==
  LET text == NormaliseLineEndings(roundTrip.text)
      breaks == {n \in DOMAIN text : text[n] = 10}
      width == IF breaks = {} THEN Len(text)
               ELSE (CHOOSE n \in breaks : \A o \in breaks : n <= o) - 1
      inked == {n \in DOMAIN text : text[n] \notin {10, 32}}
      framed ==
        /\ width > 0
        /\ \A n \in DOMAIN text : (text[n] = 10) = (n % (width + 1) = 0)
        /\ Len(text) % (width + 1) = width
        /\ \E n \in inked : n <= width
        /\ \E n \in inked : n > Len(text) - width
        /\ \E n \in inked : n % (width + 1) = 1
        /\ \E n \in inked : n % (width + 1) = width
  IN roundTrip.stage = "exported"
       /\ (\A n \in DOMAIN roundTrip.text : roundTrip.text[n] # 7)
       /\ (text = <<>> \/ framed)
     => roundTrip.exported = text

\* C20 witness: a text of two lines ended by \r\n and framed by letters
\* has been loaded away from the origin and exported.
FramedTextWitness ==
  /\ roundTrip.stage = "exported"
  /\ roundTrip.text = <<65, 13, 10, 65>>
  /\ Vector(3, 2) \in DOMAIN roundTrip.layer
  /\ roundTrip.exported = <<65, 10, 65>>

ShareOpenFallsBack ==
  (/\ lastOp \in {"construct", "cached", "throws"}
   /\ lastEvent[1].shareSpec # Null
   /\ ~ShareSpecDecodes(lastEvent[1].shareSpec))
    => /\ lastOp # "throws"
       /\ lastEvent[1] \in DOMAIN canvases
       /\ canvases[lastEvent[1]].committed = EmptyLayer

\* C24: when a persisted key is missing or its stored string fails to
\* decode, the CanvasStore constructor uses that key's default (empty
\* committed layer, empty undo and redo stacks, zoom 1, grid-centre offset)
\* and raises no error, and every other key still yields its stored value.
ConstructorFallsBackPerKey ==
  lastOp = "construct" =>
    LET id == lastEvent[1]
        c == canvases[id]
        Fails(key) ==
          \/ StorageKey(id, key) \notin DOMAIN localStorage
          \/ localStorage[StorageKey(id, key)] = Garbage
        stored(key) == localStorage[StorageKey(id, key)]
    IN /\ id.shareSpec = Null =>
            c.committed = IF Fails("committed-layer") THEN EmptyLayer
                          ELSE LayerDeserialize(stored("committed-layer"))
       /\ c.undoLayers = IF Fails("undo-layers") THEN <<>>
                         ELSE LayerArrayDeserialize(stored("undo-layers"))
       /\ c.redoLayers = IF Fails("redo-layers") THEN <<>>
                         ELSE LayerArrayDeserialize(stored("redo-layers"))
       /\ c.zoom = IF Fails("zoom") THEN 1 * ZoomUnit
                   ELSE stored("zoom").json
       /\ c.offset =
            IF Fails("offset")
            THEN Vector((MAX_GRID_WIDTH * CHAR_PIXELS_H) \div 2,
                        (MAX_GRID_HEIGHT * CHAR_PIXELS_V) \div 2)
            ELSE Vector((stored("offset").json.x * CHAR_PIXELS_H)
                          \div STORED_CHAR_PIXELS_H,
                        (stored("offset").json.y * CHAR_PIXELS_V)
                          \div STORED_CHAR_PIXELS_V)

\* C24 witness: a canvas constructed over a storage whose committed layer
\* is undecodable and whose offset is missing, next to a valid zoom and a
\* valid undo stack, which it has loaded.
ConstructorFallsBackWitness ==
  /\ lastOp = "construct"
  /\ lastEvent = <<LocalRoute>>
  /\ StorageKey(LocalRoute, "committed-layer") \in DOMAIN localStorage
  /\ localStorage[StorageKey(LocalRoute, "committed-layer")] = Garbage
  /\ StorageKey(LocalRoute, "offset") \notin DOMAIN localStorage
  /\ canvases[LocalRoute].committed = EmptyLayer
  /\ canvases[LocalRoute].zoom = 2 * ZoomUnit
  /\ Len(canvases[LocalRoute].undoLayers) = 1

\* C25: in every reachable state of a CanvasStore, including one constructed
\* from whatever strings the persistence medium holds, zoom is a number
\* greater than 0.
ZoomPositive == \A id \in DOMAIN canvases : canvases[id].zoom > 0

\* C26: offsets are persisted in the fixed (9, 16) pixel basis: setOffset(v)
\* stores (v.x / CHAR_PIXELS_H * 9, v.y / CHAR_PIXELS_V * 16), construction
\* applies the inverse scaling to a stored offset, and
\* setOffset(canvas.offset) on a loaded offset leaves the stored value as
\* it was.
OffsetStoredInFixedBasis ==
  [][LET key == StorageKey(route, "offset")
         c == canvases'[route]
     IN /\ lastOp' = "setOffset" =>
             /\ localStorage'[key] =
                  [json |-> Vector((c.offset.x * 9) \div CHAR_PIXELS_H,
                                   (c.offset.y * 16) \div CHAR_PIXELS_V)]
             /\ (key \in DOMAIN localStorage /\ localStorage[key] # Garbage)
                  => localStorage'[key] = localStorage[key]
        /\ (/\ lastOp' = "construct"
            /\ key \in DOMAIN localStorage
            /\ localStorage[key] # Garbage)
             => c.offset =
                  Vector((localStorage[key].json.x * CHAR_PIXELS_H) \div 9,
                         (localStorage[key].json.y * CHAR_PIXELS_V) \div 16)
    ]_vars

\* C26 witness: a stored offset of half a cell column and row count was
\* loaded, rescaled to today's cell height, and persisted again.
OffsetStoredWitness ==
  /\ lastOp = "setOffset"
  /\ canvases[route].offset = Vector(450, 900)
  /\ localStorage[StorageKey(route, "offset")] = [json |-> Vector(450, 800)]

\* C27: each drawing identity has its own persistence namespace: an
\* operation that writes, deletes or renames one drawing leaves the
\* committed, undo, redo, zoom and offset keys of every other drawing
\* identity as they were.
NamespacePerDrawing ==
  [][\A other \in KnownDrawingIds :
       (\A i \in DOMAIN lastEvent' : lastEvent'[i] # other) =>
         \A key \in CanvasKeys :
           LET k == StorageKey(other, key)
           IN /\ k \in DOMAIN localStorage <=> k \in DOMAIN localStorage'
              /\ k \in DOMAIN localStorage =>
                   localStorage'[k] = localStorage[k]
    ]_vars

\* What deleteDrawing(id) leaves behind, and what store.canvas does on a
\* first and on a later access (shared by the two statements of C28).
DeleteAndAccessEffect ==
  /\ lastOp' = "deleteDrawing" =>
       LET id == lastEvent'[1]
           fresh == CanvasStoreNew(id, localStorage')
       IN /\ \A i \in DOMAIN localDrawingIds' : localDrawingIds'[i] # id
          /\ \A k \in DOMAIN localStorage' : ~StartsWith(k, StoragePrefix(id))
          /\ id \notin DOMAIN canvases'
          /\ fresh.committed = EmptyLayer
          /\ fresh.undoLayers = <<>>
          /\ fresh.redoLayers = <<>>
          /\ fresh.zoom = 1 * ZoomUnit
  /\ lastOp' = "construct" =>
       /\ lastEvent'[1] \notin DOMAIN canvases
       /\ lastEvent'[1] \in DOMAIN canvases'
  /\ lastOp' = "cached" => canvases' = canvases

\* C28 as stated: store.canvas(id) creates a CanvasStore on first access and
\* the cache keeps that instance until deleteDrawing(id); deleteDrawing(id)
\* removes id from localDrawingIds, removes every persisted key of the
\* drawing and drops the cached instance, so the next access constructs an
\* empty drawing.
CanvasKeptUntilDelete ==
  [][/\ DeleteAndAccessEffect
     /\ \A id \in DOMAIN canvases :
          \/ id \in DOMAIN canvases'
          \/ lastOp' = "deleteDrawing" /\ lastEvent'[1] = id
    ]_vars

\* C28 amended: the cache keeps the instance until deleteDrawing(id) or
\* until the drawing is renamed away from id; the rest as stated.
CanvasKeptUntilDeleteOrRename ==
  [][/\ DeleteAndAccessEffect
     /\ \A id \in DOMAIN canvases :
          \/ id \in DOMAIN canvases'
          \/ lastOp' = "deleteDrawing" /\ lastEvent'[1] = id
          \/ lastOp' = "renameDrawing" /\ lastEvent'[1] = id
    ]_vars

\* C28 witness: the drawing "a", which holds the keys of the renamed default
\* drawing, has just been deleted: its keys, its list entry and its cached
\* instance are gone.
CanvasDeletedWitness ==
  /\ lastOp = "deleteDrawing"
  /\ lastEvent = <<DrawingIdLocal("a")>>
  /\ StorageKey(LocalRoute, "zoom") \notin DOMAIN localStorage
  /\ StorageKey(DrawingIdLocal("a"), "zoom") \notin DOMAIN localStorage
  /\ DrawingIdLocal("a") \notin DOMAIN canvases
  /\ LocalRoute \in DOMAIN canvases

\* C29: during a draw gesture every pointer move into a cell different from
\* the cell last delivered to the tool (the start cell, or the cell of the
\* last forwarded move) is forwarded to the active tool as move(cell)
\* exactly once, and a move that stays in that cell is not forwarded.
MovesForwardedOnce ==
  [][(/\ controller.mode = "DRAW"
      /\ toolCalls.delivered # <<>>
      /\ toolCalls'.moveCell # <<>>) =>
       LET moves == SelectSeq(toolCalls'.calls, LAMBDA call : call.op = "move")
       IN IF toolCalls'.moveCell # toolCalls.delivered
          THEN moves = <<[op |-> "move", tool |-> CurrentTool,
                          cell |-> toolCalls'.moveCell]>>
          ELSE moves = <<>>
    ]_vars

\* Whether a sequence of calls follows Idle -> Active -> Idle on every tool,
\* given the set of tools that are in a gesture before the first call.
RECURSIVE FollowsLifecycle(_, _)
FollowsLifecycle(calls, active) ==
  IF calls = <<>> THEN TRUE
  ELSE LET call == Head(calls)
       IN CASE call.op = "start" ->
                 /\ call.tool \notin active
                 /\ FollowsLifecycle(Tail(calls), active \cup {call.tool})
            [] call.op = "move" ->
                 /\ call.tool \in active
                 /\ FollowsLifecycle(Tail(calls), active)
            [] call.op = "end" ->
                 /\ call.tool \in active
                 /\ FollowsLifecycle(Tail(calls), active \ {call.tool})
            [] OTHER ->
                 FollowsLifecycle(Tail(calls), active \ {call.tool})

\* C30: over any sequence of pointer and key events each tool follows
\* Idle -> Active -> Idle: start() is only called on an idle tool, and
\* end() and move() are only called on a tool that has a gesture begun by
\* start() and not yet ended or cleaned up.
ToolLifecycle ==
  [][FollowsLifecycle(toolCalls'.calls,
                      {tool \in DrawTools : tools[tool] # Idle})]_vars

\* C31: Ctrl/Cmd+Z while scratch is non-empty discards the in-progress edit
\* (cleanup of the tool in use, scratch emptied, selection cleared) and
\* leaves committed and the undo and redo stacks as they were; with an
\* empty scratch and an undo entry it undoes.
CtrlZDiscardsScratch ==
  [][LET e == lastEvent'[1]
         c == CurrentCanvas
         d == canvases'[route]
     IN (lastOp' = "keydown" /\ e.ctrlKey /\ ~e.shiftKey /\ e.keyCode = 90)
          => IF Size(c.scratch) > 0
             THEN /\ d.scratch = EmptyLayer
                  /\ d.selection = NullSelection
                  /\ d.committed = c.committed
                  /\ d.undoLayers = c.undoLayers
                  /\ d.redoLayers = c.redoLayers
                  /\ toolCalls'.calls =
                       <<[op |-> "cleanup", tool |-> CurrentTool,
                          cell |-> <<>>]>>
             ELSE /\ toolCalls'.calls = <<>>
                  /\ Len(c.undoLayers) > 0 =>
                       /\ Len(d.undoLayers) = Len(c.undoLayers) - 1
                       /\ Len(d.redoLayers) = Len(c.redoLayers) + 1
    ]_vars

\* C31 witness: Ctrl+Z has discarded a scratch drawn over a committed
\* drawing: the selection is cleared and the undo entry is still there.
CtrlZDiscardsWitness ==
  /\ lastOp = "keydown"
  /\ lastEvent[1].ctrlKey /\ ~lastEvent[1].shiftKey /\ ~lastEvent[1].altKey
  /\ lastEvent[1].keyCode = 90
  /\ CurrentCanvas.scratch = EmptyLayer
  /\ CurrentCanvas.selection = NullSelection
  /\ CurrentCanvas.committed # EmptyLayer
  /\ Len(CurrentCanvas.undoLayers) = 1
  /\ toolCalls.calls # <<>>

\* C32: after a two-pointer pinch/pan, lifting one of the pointers does not
\* start drawing: from the moment two pointers are down until all pointers
\* are lifted the controller is in no gesture and no handler calls start,
\* move or end on a tool.  (Stated inductively: two pointers down leave the
\* controller in mode NONE, and a step from two pointers down, or from a
\* pressed pointer in mode NONE, makes no such call and stays in mode NONE
\* while a pointer is down.)
NoDrawAfterPinch ==
  [][LET drawCalls ==
           SelectSeq(toolCalls'.calls,
                     LAMBDA call : call.op \in {"start", "move", "end"})
     IN /\ Cardinality(pressed') >= 2 => controller'.mode = "NONE"
        /\ (\/ Cardinality(pressed) >= 2
            \/ pressed # {} /\ controller.mode = "NONE") =>
             /\ drawCalls = <<>>
             /\ pressed' # {} => controller'.mode = "NONE"
    ]_vars

\* C32 witness: one of the two pointers of a pinch has just been lifted;
\* the other is still down, no tool is in a gesture and none was called.
NoDrawAfterPinchWitness ==
  /\ lastOp = "pointerup"
  /\ Cardinality(pressed) = 1
  /\ controller.mode = "NONE"
  /\ \A tool \in DrawTools : tools[tool] = Idle
  /\ toolCalls.calls = <<>>
  /\ CurrentCanvas.zoom # 1 * ZoomUnit

\* C34: the InputController's pointer map holds exactly the pointers that
\* are pressed on the canvas, so a single pressed pointer has set up no
\* pinch: there is no pan origin and no pinch start length.
PointerMapHoldsPressed ==
  /\ DOMAIN inputController.pointers = pressed
  /\ Cardinality(pressed) = 1 =>
       /\ inputController.panOrigin = <<>>
       /\ inputController.pinchStartLength = 0

\* The second half of C34 alone: pressing a pointer while no other pointer
\* is pressed starts a draw or a drag.
LonePointerDrawsOrDrags ==
  [][(lastOp' = "pointerdown" /\ pressed = {})
       => controller'.mode \in {"DRAW", "DRAG"}]_vars

\* C33: in the touch controller each single-finger press causes at most one
\* startDraw, at the position of that press, and a press that was released,
\* or that became a drag or a pinch, before its latency timeout ran never
\* starts a draw.
TouchPressDrawsOnce ==
  \A press \in DOMAIN touchWindow.presses :
    LET draws == touchWindow.presses[press].draws
    IN /\ Len(draws) <= 1
       /\ \A n \in DOMAIN draws :
            /\ draws[n].position = touchWindow.presses[press].position
            /\ draws[n].state = "held"

\* C35: every entry on the undo stack and on the redo stack is a non-empty
\* delta, after any sequence of commitScratch, clear, undo and redo from
\* empty stacks.
StackEntriesNonEmpty ==
  /\ \A n \in DOMAIN CurrentCanvas.undoLayers :
       Size(CurrentCanvas.undoLayers[n]) > 0
  /\ \A n \in DOMAIN CurrentCanvas.redoLayers :
       Size(CurrentCanvas.redoLayers[n]) > 0

\* The consequence C35 draws: an undo() or redo() that finds an entry
\* changes the committed layer.
UndoRedoChangesACell ==
  [][/\ (lastOp' = "undo" /\ Len(CurrentCanvas.undoLayers) > 0)
          => canvases'[route].committed # CurrentCanvas.committed
     /\ (lastOp' = "redo" /\ Len(CurrentCanvas.redoLayers) > 0)
          => canvases'[route].committed # CurrentCanvas.committed
    ]_vars

\* The empty entries of a stack all come from clear() on an empty drawing:
\* an entry is empty only where the trail records a clear of an empty layer.
OnlyClearPushesEmpty ==
  [][lastOp' # "clear" =>
       /\ \A n \in DOMAIN canvases'[route].undoLayers :
            Size(canvases'[route].undoLayers[n]) = 0
              => \/ \E k \in DOMAIN CurrentCanvas.undoLayers :
                      Size(CurrentCanvas.undoLayers[k]) = 0
                 \/ \E k \in DOMAIN CurrentCanvas.redoLayers :
                      Size(CurrentCanvas.redoLayers[k]) = 0
       /\ \A n \in DOMAIN canvases'[route].redoLayers :
            Size(canvases'[route].redoLayers[n]) = 0
              => \/ \E k \in DOMAIN CurrentCanvas.undoLayers :
                      Size(CurrentCanvas.undoLayers[k]) = 0
                 \/ \E k \in DOMAIN CurrentCanvas.redoLayers :
                      Size(CurrentCanvas.redoLayers[k]) = 0
    ]_vars

\* C36: commitScratch preserves what is displayed: for every cell v,
\* committed.get(v) right after commitScratch equals combined.get(v) right
\* before it, where a deletion mark of the scratch counts as absent.
CommitPreservesDisplay ==
  [][lastOp' = "commitScratch" =>
       \A v \in Cells :
         LET shown == LayerViewGet(Combined(CurrentCanvas), v)
             after == canvases'[route].committed
         IN (IF v \in DOMAIN after THEN <<after[v]>> ELSE <<>>) =
              IF shown = <<Del>> THEN <<>> ELSE shown
    ]_vars

\* C36 witness: a commit has erased the glyph of one cell, which the undo
\* entry records, and left the glyph of the other cell on display.
CommitPreservesWitness ==
  /\ lastOp = "commitScratch"
  /\ Vector(0, 0) \notin DOMAIN CurrentCanvas.committed
  /\ Vector(1, 0) \in DOMAIN CurrentCanvas.committed
  /\ Len(CurrentCanvas.undoLayers) > 0
  /\ LET entry == CurrentCanvas.undoLayers[Len(CurrentCanvas.undoLayers)]
     IN /\ DOMAIN entry = {Vector(0, 0)}
        /\ entry[Vector(0, 0)] = 65

\* C37: after any sequence of CanvasStore operations on a local drawing, a
\* new CanvasStore constructed for the same DrawingId from localStorage has
\* the committed layer, undo stack, redo stack, zoom and offset of the live
\* one; its scratch is empty and it has no selection.
ReconstructionMatchesLive ==
  (route.type = "local" /\ route \in DOMAIN canvases) =>
    LET live == canvases[route]
        new == CanvasStoreNew(route, localStorage)
    IN /\ new.committed = live.committed
       /\ new.undoLayers = live.undoLayers
       /\ new.redoLayers = live.redoLayers
       /\ new.zoom = live.zoom
       /\ new.offset = live.offset
       /\ new.scratch = EmptyLayer
       /\ new.selection \in {NoSelection, NullSelection}

\* C37 witness: after a zoom, a commit, an undo and a redo the store built
\* from localStorage has the zoom, the layer and the undo entry of the live
\* one.
ReconstructionWitness ==
  /\ lastOp = "redo"
  /\ route \in DOMAIN canvases
  /\ canvases[route].zoom = 2 * ZoomUnit
  /\ canvases[route].committed # EmptyLayer
  /\ Len(canvases[route].undoLayers) = 1
  /\ CanvasStoreNew(route, localStorage).undoLayers
       = canvases[route].undoLayers
  /\ CanvasStoreNew(route, localStorage).zoom = 2 * ZoomUnit

\* C38: renameDrawing(a, b) preserves the drawing, for every pair of names
\* the rename row submits: every value stored under a key of a is stored
\* under the same key of b, b is listed and a is not, and store.canvas of b
\* has the committed layer and the undo and redo stacks that a had.
RenamePreservesDrawing ==
  [][lastOp' = "renameDrawing" =>
       LET a == lastEvent'[1]
           b == lastEvent'[2]
           before == GetCanvas(a)
           after == IF b \in DOMAIN canvases' THEN canvases'[b]
                    ELSE CanvasStoreNew(b, localStorage')
       IN /\ \A key \in CanvasKeys :
               StorageKey(a, key) \in DOMAIN localStorage =>
                 /\ StorageKey(b, key) \in DOMAIN localStorage'
                 /\ localStorage'[StorageKey(b, key)]
                      = localStorage[StorageKey(a, key)]
          /\ \E i \in DOMAIN localDrawingIds' : localDrawingIds'[i] = b
          /\ ~ \E i \in DOMAIN localDrawingIds' : localDrawingIds'[i] = a
          /\ after.committed = before.committed
          /\ after.undoLayers = before.undoLayers
          /\ after.redoLayers = before.redoLayers
    ]_vars

\* The part of C38 that holds: between two names with different storage
\* prefixes the stored values move, and where the cache holds no store of
\* either name store.canvas of the new name is the drawing as it was.
RenameMovesKeys ==
  [][(/\ lastOp' = "renameDrawing"
      /\ PersistentKey(lastEvent'[1]) # PersistentKey(lastEvent'[2])) =>
       LET a == lastEvent'[1]
           b == lastEvent'[2]
       IN /\ \A key \in CanvasKeys :
               /\ StorageKey(a, key) \notin DOMAIN localStorage'
               /\ StorageKey(a, key) \in DOMAIN localStorage =>
                    /\ StorageKey(b, key) \in DOMAIN localStorage'
                    /\ localStorage'[StorageKey(b, key)]
                         = localStorage[StorageKey(a, key)]
          /\ \E i \in DOMAIN localDrawingIds' : localDrawingIds'[i] = b
          /\ ~ \E i \in DOMAIN localDrawingIds' : localDrawingIds'[i] = a
          /\ (/\ a \notin DOMAIN canvases
              /\ b \notin DOMAIN canvases
              /\ \A key \in CanvasKeys :
                   StorageKey(b, key) \notin DOMAIN localStorage) =>
               CanvasStoreNew(b, localStorage')
                 = [CanvasStoreNew(a, localStorage) EXCEPT !.drawingId = b]
    ]_vars

\* C39: localDrawingIds never contains two entries with the same identity
\* (the same toString()), after any sequence of create, fork, rename and
\* delete.
NoDuplicateDrawingIds ==
  \A i, j \in DOMAIN localDrawingIds :
    i # j => PersistentKey(localDrawingIds[i])
               # PersistentKey(localDrawingIds[j])

\* C39 without the fork button: create, rename and delete keep the list
\* free of duplicates.
OnlyForkDuplicates ==
  [][(lastOp' # "saveDrawing" /\ NoDuplicateDrawingIds)
       => NoDuplicateDrawingIds']_vars

====
